---- MODULE Spec2Model ----
(***************************************************************************)
(* Collaborative editor backend: piece table, diff engine, merge service,  *)
(* version control and the per-document websocket consumer.                *)
(*                                                                         *)
(* Text is a sequence of one-character strings.  Versions are integer      *)
(* tenths (1.0 is 10).  Indices returned by the Python code are 0-based    *)
(* and kept 0-based here; TLA+ sequences are indexed with i + 1.           *)
(***************************************************************************)
EXTENDS Integers, Sequences, FiniteSets, TLC

VARIABLES
    pt,        \* the PieceTable object under edit
    ptOp,      \* the most recent PieceTable call and how it ended
    ptPrev,    \* the call before that
    dState,    \* diff engine: source table, target table, ops and the result of apply_diff
    fm,        \* the FormattingManager object: its styles, lines and blocks lists
    doc,       \* the persisted Document row: current_version (tenths) and content
    versions,  \* the persisted DocumentVersion rows, in the order they were created
    changes,   \* the persisted Change rows, in the order they were created
    joined,    \* the connections that are in the document's group
    scopes,    \* per connection, the scope its consumer was started with
    outbox,    \* the messages the most recent call wrote to sockets, as [to, msg]
    handlers,  \* per connection, where its handle_operation coroutine stands
    last       \* the most recent service / consumer call and how it ended

ptVars == <<pt, ptOp, ptPrev>>
storeVars == <<doc, versions, changes>>
connVars == <<joined, scopes, outbox, handlers>>
vars == <<pt, ptOp, ptPrev, dState, fm, doc, versions, changes, joined, scopes, outbox, handlers, last>>

----------------------------------------------------------------------------
\* Bounds of the model

MaxAdd == 3        \* characters the add buffer may hold in the piece-table runs
MaxInsert == 3     \* longest text of one insert call
MaxDiffLen == 3    \* longest source / target text of the diff runs

Alphabet == {"a", "b"}

\* The characters handed to successive insert calls of the piece-table runs.
\* The piece table never looks at a character, so texts whose characters are
\* all different stand for every text and let every misplaced slice show.
Chars == <<"a", "b", "c", "d", "e", "f", "g", "h", "i", "j", "k", "l", "m">>

\* the text of n characters that follows the first k characters of Chars
Fresh(k, n) == [i \in 1..n |-> Chars[k + i]]

Min(a, b) == IF a < b THEN a ELSE b
Max(a, b) == IF a > b THEN a ELSE b

\* all texts over Alphabet of length lo..hi
Texts(lo, hi) == UNION {[1..n -> Alphabet] : n \in lo..hi}

\* Python s[i:j] for 0 <= i, 0 <= j (clipped to the sequence)
PySlice(s, i, j) == SubSeq(s, i + 1, Min(j, Len(s)))

\* Python list.insert(i, x) for i >= 0
ListInsert(s, i, x) ==
    IF i >= Len(s) THEN Append(s, x)
    ELSE SubSeq(s, 1, i) \o <<x>> \o SubSeq(s, i + 1, Len(s))

\* Python del s[i:j] for 0 <= i, 0 <= j
ListDelSlice(s, i, j) ==
    IF Min(i, Len(s)) >= Min(j, Len(s)) THEN s
    ELSE SubSeq(s, 1, Min(i, Len(s))) \o SubSeq(s, Min(j, Len(s)) + 1, Len(s))

----------------------------------------------------------------------------
\* editor/models/piece_table.py

Piece(buffer_type, start, length, line_start) ==
    [buffer_type |-> buffer_type, start |-> start, length |-> length,
     line_start |-> line_start]

\* split with the second half starting where the first starts
split_same_start(piece, offset) ==
    IF offset <= 0 \/ offset >= piece.length
    THEN [exc |-> "ValueError", first |-> piece, second |-> piece]
    ELSE [exc |-> "none",
          first |-> Piece(piece.buffer_type, piece.start, offset, piece.line_start),
          second |-> Piece(piece.buffer_type, piece.start,
                           piece.length - offset, FALSE)]

\* Piece.split: raises ValueError unless 0 < offset < length
split(piece, offset) ==
    IF offset <= 0 \/ offset >= piece.length
    THEN [exc |-> "ValueError", first |-> piece, second |-> piece]
    ELSE [exc |-> "none",
          first |-> Piece(piece.buffer_type, piece.start, offset, piece.line_start),
          second |-> Piece(piece.buffer_type, piece.start + offset,
                           piece.length - offset, FALSE)]

\* PieceTable.__init__
EmptyTable ==
    [original_buffer |-> <<>>, add_buffer |-> <<>>, pieces |-> <<>>,
     styles |-> <<>>, lines |-> <<>>]

RECURSIVE find_from(_, _, _, _)
find_from(pieces, position, i, curr_pos) ==
    IF i >= Len(pieces) THEN <<Len(pieces), 0>>
    ELSE IF curr_pos <= position /\ position < curr_pos + pieces[i + 1].length
         THEN <<i, position - curr_pos>>
         ELSE find_from(pieces, position, i + 1, curr_pos + pieces[i + 1].length)

\* PieceTable._find_piece_at_position: (piece index, offset in piece), 0-based
find_piece_at_position(table, position) == find_from(table.pieces, position, 0, 0)

\* piece_table.py StyleRange and LineMarker objects
StyleRange(piece_index, start_offset, length, attributes) ==
    [piece_index |-> piece_index, start_offset |-> start_offset,
     length |-> length, attributes |-> attributes]

LineMarker(piece_index, offset, type, properties) ==
    [piece_index |-> piece_index, offset |-> offset, type |-> type,
     properties |-> properties]

\* the entry is a StyleRange or LineMarker object; apply_diff and
\* VersionControl._apply_change append dicts, which have keys and no attributes
IsMarkerObject(x) == "piece_index" \in DOMAIN x

\* the exception PieceTable._update_markers ends with: AttributeError at the
\* first entry that is a dict
update_markers_exc(table) ==
    IF \/ \E k \in 1..Len(table.styles) : ~IsMarkerObject(table.styles[k])
       \/ \E k \in 1..Len(table.lines) : ~IsMarkerObject(table.lines[k])
    THEN "AttributeError" ELSE "none"

\* PieceTable._update_markers: the entries in front of the first dict are
\* updated, the loops end there
update_markers(table, piece_index, delta) ==
    [table EXCEPT
       !.styles = [k \in 1..Len(table.styles) |->
                     IF /\ \A j \in 1..k : IsMarkerObject(table.styles[j])
                        /\ table.styles[k].piece_index > piece_index
                     THEN [table.styles[k] EXCEPT !.start_offset = @ + delta]
                     ELSE table.styles[k]],
       !.lines = [k \in 1..Len(table.lines) |->
                     IF /\ \A j \in 1..Len(table.styles) : IsMarkerObject(table.styles[j])
                        /\ \A j \in 1..k : IsMarkerObject(table.lines[j])
                        /\ table.lines[k].piece_index > piece_index
                     THEN [table.lines[k] EXCEPT !.offset = @ + delta]
                     ELSE table.lines[k]]]

RECURSIVE text_from(_, _)
text_from(table, k) ==
    IF k > Len(table.pieces) THEN <<>>
    ELSE LET piece == table.pieces[k]
             buffer == IF piece.buffer_type = "original"
                       THEN table.original_buffer ELSE table.add_buffer
         IN PySlice(buffer, piece.start, piece.start + piece.length)
            \o text_from(table, k + 1)

\* PieceTable.get_text
get_text(table) == text_from(table, 1)

\* insert that reads the add buffer's length after appending the text to it
insert_late_pos(table, position, text) ==
    IF text = <<>> THEN [table |-> table, exc |-> "none"]
    ELSE
    LET found == find_piece_at_position(table, position)
        t1 == [table EXCEPT !.add_buffer = @ \o text]
        new_piece == Piece("add", Len(t1.add_buffer), Len(text), FALSE)
    IN IF found[2] > 0
       THEN LET sp == split(t1.pieces[found[1] + 1], found[2])
                p1 == [t1.pieces EXCEPT ![found[1] + 1] = sp.first]
                p2 == ListInsert(p1, found[1] + 1, new_piece)
                p3 == ListInsert(p2, found[1] + 2, sp.second)
            IN [table |-> [t1 EXCEPT !.pieces = p3], exc |-> "none"]
       ELSE [table |-> [t1 EXCEPT !.pieces = ListInsert(t1.pieces, found[1], new_piece)],
             exc |-> "none"]

\* PieceTable.insert: the table after the call and the exception it ended with
insert(table, position, text) ==
    IF text = <<>> THEN [table |-> table, exc |-> "none"]
    ELSE
    LET found == find_piece_at_position(table, position)
        piece_index == found[1]
        offset == found[2]
        add_buffer_pos == Len(table.add_buffer)
        t1 == [table EXCEPT !.add_buffer = @ \o text]
        new_piece == Piece("add", add_buffer_pos, Len(text), FALSE)
    IN IF offset > 0
       THEN LET sp == split(t1.pieces[piece_index + 1], offset)
            IN IF sp.exc # "none" THEN [table |-> t1, exc |-> sp.exc]
               ELSE LET p1 == [t1.pieces EXCEPT ![piece_index + 1] = sp.first]
                        p2 == ListInsert(p1, piece_index + 1, new_piece)
                        p3 == ListInsert(p2, piece_index + 2, sp.second)
                    IN [table |-> update_markers([t1 EXCEPT !.pieces = p3],
                                                 piece_index, Len(text)),
                        exc |-> update_markers_exc(table)]
       ELSE [table |-> update_markers(
                         [t1 EXCEPT !.pieces = ListInsert(t1.pieces, piece_index, new_piece)],
                         piece_index, Len(text)),
             exc |-> update_markers_exc(table)]

\* PieceTable.delete, "Handle end piece" onwards; start_piece_index is the
\* index after the start piece was handled
delete_end(table, start_piece_index, end_piece_index, end_offset, length) ==
    IF end_piece_index >= Len(table.pieces)
    THEN [table |-> table, exc |-> "IndexError"]
    ELSE IF end_offset < table.pieces[end_piece_index + 1].length
    THEN LET sp == split(table.pieces[end_piece_index + 1], end_offset)
         IN IF sp.exc # "none" THEN [table |-> table, exc |-> sp.exc]
            ELSE LET p1 == [table.pieces EXCEPT ![end_piece_index + 1] = sp.second]
                     p2 == ListDelSlice(p1, start_piece_index, end_piece_index)
                 IN [table |-> update_markers([table EXCEPT !.pieces = p2],
                                              start_piece_index, 0 - length),
                     exc |-> update_markers_exc(table)]
    ELSE [table |-> update_markers(
                      [table EXCEPT !.pieces =
                          ListDelSlice(table.pieces, start_piece_index, end_piece_index + 1)],
                      start_piece_index, 0 - length),
          exc |-> update_markers_exc(table)]

\* PieceTable.delete: the table after the call (a failed call keeps what it
\* had already changed) and the exception it ended with
delete(table, position, length) ==
    IF length <= 0 THEN [table |-> table, exc |-> "none"]
    ELSE
    LET s == find_piece_at_position(table, position)
        e == find_piece_at_position(table, position + length)
    IN IF s[2] > 0
       THEN LET sp == split(table.pieces[s[1] + 1], s[2])
            IN IF sp.exc # "none" THEN [table |-> table, exc |-> sp.exc]
               ELSE delete_end([table EXCEPT !.pieces[s[1] + 1] = sp.first],
                               s[1] + 1, e[1], e[2], length)
       ELSE delete_end(table, s[1], e[1], e[2], length)

----------------------------------------------------------------------------
\* utils/diff.py.  An operation is a Python dict, here a record with the same
\* keys; d.get(k, default) reads DOMAIN d.

Get(d, k, default) == IF k \in DOMAIN d THEN d[k] ELSE default

DeleteOp(position, length) ==
    [type |-> "delete", position |-> position, length |-> length]

InsertOp(position, content) ==
    [type |-> "insert", position |-> position, content |-> content]

\* DiffCalculator._get_lcs: the matched (source index, target index) pairs,
\* 0-based, in increasing order
get_lcs(seq1, seq2) ==
    LET m == Len(seq1)
        n == Len(seq2)
        dp[i \in 0..m, j \in 0..n] ==
            IF i = 0 \/ j = 0 THEN 0
            ELSE IF seq1[i] = seq2[j] THEN dp[i - 1, j - 1] + 1
            ELSE Max(dp[i - 1, j], dp[i, j - 1])
        back[i \in 0..m, j \in 0..n] ==
            IF i = 0 \/ j = 0 THEN <<>>
            ELSE IF seq1[i] = seq2[j] THEN Append(back[i - 1, j - 1], <<i - 1, j - 1>>)
            ELSE IF dp[i - 1, j] > dp[i, j - 1] THEN back[i - 1, j]
            ELSE back[i, j - 1]
    IN back[m, n]

\* the delete operations of one "while source_pos < limit" loop
deletes_upto(source_pos, limit) ==
    [k \in 1..Max(limit - source_pos, 0) |-> DeleteOp(source_pos + k - 1, 1)]

\* the insert operations of one "while target_pos < limit" loop
inserts_upto(target, target_pos, limit) ==
    [k \in 1..Max(limit - target_pos, 0) |->
        InsertOp(target_pos + k - 1, <<target[target_pos + k]>>)]

RECURSIVE walk_lcs(_, _, _, _, _, _)
walk_lcs(source, target, lcs, k, source_pos, target_pos) ==
    IF k > Len(lcs)
    THEN deletes_upto(source_pos, Len(source))
         \o inserts_upto(target, target_pos, Len(target))
    ELSE deletes_upto(source_pos, lcs[k][1])
         \o inserts_upto(target, target_pos, lcs[k][2])
         \o walk_lcs(source, target, lcs, k + 1,
                     Max(source_pos, lcs[k][1]) + 1, Max(target_pos, lcs[k][2]) + 1)

\* the extent _optimize_operations reads off the current operation
op_extent(op) == Get(op, "length", Len(Get(op, "content", <<>>)))

RECURSIVE optimize_from(_, _, _, _)
optimize_from(operations, k, current_op, optimized) ==
    IF k > Len(operations) THEN Append(optimized, current_op)
    ELSE LET op == operations[k]
         IN IF op.type = current_op.type
               /\ op.position = current_op.position + op_extent(current_op)
            THEN optimize_from(operations, k + 1,
                   IF op.type = "delete"
                   THEN [current_op EXCEPT !.length = @ + op.length]
                   ELSE [current_op EXCEPT !.content = @ \o op.content],
                   optimized)
            ELSE optimize_from(operations, k + 1, op, Append(optimized, current_op))

\* DiffCalculator._optimize_operations
optimize_operations(operations) ==
    IF operations = <<>> THEN operations
    ELSE optimize_from(operations, 2, operations[1], <<>>)

\* DiffCalculator._generate_operations
generate_operations(source, target, lcs) ==
    optimize_operations(walk_lcs(source, target, lcs, 1, 0, 0))

\* DiffCalculator._compare_styles reads pieceIndex, offsetInPiece and styles,
\* which no style of a PieceTable carries (its StyleRange has piece_index,
\* start_offset, attributes): the first style it touches, of the target or of the
\* source, ends the call with AttributeError.
compare_styles(source, target) ==
    IF target.styles = <<>> /\ source.styles = <<>>
    THEN [ops |-> <<>>, exc |-> "none"]
    ELSE [ops |-> <<>>, exc |-> "AttributeError"]

\* DiffCalculator._compare_lines reads pieceIndex and offsetInPiece of a
\* LineMarker that has piece_index and offset: AttributeError on the first line.
compare_lines(source, target) ==
    IF target.lines = <<>> /\ source.lines = <<>>
    THEN [ops |-> <<>>, exc |-> "none"]
    ELSE [ops |-> <<>>, exc |-> "AttributeError"]

\* DiffCalculator.create_diff: the operation list, or the exception that ended it
create_diff(source, target) ==
    LET source_chars == get_text(source)
        target_chars == get_text(target)
        lcs == get_lcs(source_chars, target_chars)
        operations == generate_operations(source_chars, target_chars, lcs)
        style_ops == compare_styles(source, target)
        line_ops == compare_lines(source, target)
    IN IF style_ops.exc # "none" THEN [ops |-> <<>>, exc |-> style_ops.exc]
       ELSE IF line_ops.exc # "none" THEN [ops |-> <<>>, exc |-> line_ops.exc]
       ELSE [ops |-> operations \o style_ops.ops \o line_ops.ops, exc |-> "none"]

\* a style op of apply_diff appends a dict to piece_table.styles
DiffStyleEntry(table, position, op) ==
    [pieceIndex |-> find_piece_at_position(table, position)[1],
     startOffset |-> position, length |-> op.length, attributes |-> op.attributes]

\* a line op of apply_diff appends a dict to piece_table.lines
DiffLineEntry(table, position, op) ==
    [pieceIndex |-> find_piece_at_position(table, position)[1],
     offset |-> position, type |-> op.lineType, properties |-> op.properties]

RECURSIVE apply_from(_, _, _, _)
apply_from(table, operations, k, position_offset) ==
    IF k > Len(operations) THEN [table |-> table, exc |-> "none"]
    ELSE
    LET op == operations[k]
        position == op.position + position_offset
    IN CASE op.type = "insert" ->
              LET r == insert(table, position, op.content)
              IN IF r.exc # "none" THEN r
                 ELSE apply_from(r.table, operations, k + 1,
                                 position_offset + Len(op.content))
         [] op.type = "delete" ->
              LET r == delete(table, position, op.length)
              IN IF r.exc # "none" THEN r
                 ELSE apply_from(r.table, operations, k + 1,
                                 position_offset - op.length)
         [] op.type = "style" ->
              apply_from([table EXCEPT !.styles =
                            Append(@, DiffStyleEntry(table, position, op))],
                         operations, k + 1, position_offset)
         [] op.type = "line" ->
              apply_from([table EXCEPT !.lines =
                            Append(@, DiffLineEntry(table, position, op))],
                         operations, k + 1, position_offset)
         [] OTHER -> apply_from(table, operations, k + 1, position_offset)

\* DiffCalculator.apply_diff: the table after the call (a failed call keeps the
\* operations already applied) and the exception it ended with
apply_diff(piece_table, operations) == apply_from(piece_table, operations, 1, 0)

----------------------------------------------------------------------------
\* Python values that are not text or dicts

PyNone == [py |-> "None"]          \* None where a dict is expected
NoneText == <<"None">>             \* None where a str is expected
PyList(items) == [py |-> "list", items |-> items]
IsList(x) == "py" \in DOMAIN x /\ x.py = "list"

----------------------------------------------------------------------------
\* editor/models/document.py

\* PieceTable.to_json: vars() of every piece, style and line.  A style or line
\* that is a dict (apply_diff and VersionControl._apply_change append dicts)
\* has no __dict__: vars() raises TypeError.
to_json(table) ==
    IF \/ \E k \in 1..Len(table.styles) : "pieceIndex" \in DOMAIN table.styles[k]
       \/ \E k \in 1..Len(table.lines) : "pieceIndex" \in DOMAIN table.lines[k]
    THEN [json |-> PyNone, exc |-> "TypeError"]
    ELSE [json |-> [originalBuffer |-> table.original_buffer,
                    addBuffer |-> table.add_buffer,
                    pieces |-> table.pieces,
                    styles |-> table.styles,
                    lines |-> table.lines],
          exc |-> "none"]

\* PieceTable.from_json
from_json(data) ==
    [original_buffer |-> data.originalBuffer, add_buffer |-> data.addBuffer,
     pieces |-> data.pieces, styles |-> data.styles, lines |-> data.lines]

\* the exception PieceTable.from_json ends with: Piece(**p), StyleRange(**s)
\* and LineMarker(**l) take the fields of their dataclass and raise TypeError
\* for any other keyword
from_json_exc(data) ==
    IF \/ \E k \in 1..Len(data.pieces) :
             DOMAIN data.pieces[k] # {"buffer_type", "start", "length", "line_start"}
       \/ \E k \in 1..Len(data.styles) :
             DOMAIN data.styles[k] # {"piece_index", "start_offset", "length", "attributes"}
       \/ \E k \in 1..Len(data.lines) :
             DOMAIN data.lines[k] # {"piece_index", "offset", "type", "properties"}
    THEN "TypeError" ELSE "none"

\* Document.initialize_content
InitialContent ==
    [originalBuffer |-> <<>>, addBuffer |-> <<>>, pieces |-> <<>>,
     styles |-> <<>>, lines |-> <<>>]

\* Document.current_version default, 1.0 in tenths
InitialVersion == 10

\* Document.get_piece_table.  document.py imports models, get_user_model, uuid
\* and json and never PieceTable: evaluating the name in the method body raises
\* NameError before from_json is reached.
get_piece_table(document) == [table |-> PyNone, exc |-> "NameError"]

\* document.versions.filter(version=v).first() / DocumentVersion.objects.get
RECURSIVE find_version(_, _, _)
find_version(log, v, k) ==
    IF k > Len(log) THEN PyNone
    ELSE IF log[k].version = v THEN log[k]
    ELSE find_version(log, v, k + 1)

\* DocumentVersion.objects.create without the unique_together constraint
create_version_row_unconstrained(log, version, content) ==
    [log |-> Append(log, [version |-> version, content |-> content]),
     exc |-> "none"]

\* DocumentVersion.objects.create under unique_together (document, version):
\* the log after the insert, or IntegrityError
create_version_row(log, version, content) ==
    IF find_version(log, version, 1) # PyNone
    THEN [log |-> log, exc |-> "IntegrityError"]
    ELSE [log |-> Append(log, [version |-> version, content |-> content]),
          exc |-> "none"]

\* Change model instance
Change(source_version, operation_type, position, content, attributes) ==
    [source_version |-> source_version, operation_type |-> operation_type,
     position |-> position, content |-> content, attributes |-> attributes]

----------------------------------------------------------------------------
\* editor/models/formatting.py

\* StyleRange of the formatting overlay
FormatStyleRange(pieceIndex, offsetInPiece, length, priority, styles) ==
    [pieceIndex |-> pieceIndex, offsetInPiece |-> offsetInPiece,
     length |-> length, priority |-> priority, styles |-> styles]

\* StyleRange.overlaps
overlaps(self, other) ==
    IF self.pieceIndex # other.pieceIndex THEN FALSE
    ELSE ~(\/ self.offsetInPiece + self.length <= other.offsetInPiece
           \/ other.offsetInPiece + other.length <= self.offsetInPiece)

\* LineMarker of the formatting overlay
FormatLineMarker(pieceIndex, offsetInPiece, type) ==
    [pieceIndex |-> pieceIndex, offsetInPiece |-> offsetInPiece,
     type |-> type, properties |-> [k \in {} |-> TRUE]]

\* BlockDescriptor
BlockDescriptor(startPieceIndex, startOffset, endPieceIndex, endOffset, type) ==
    [startPieceIndex |-> startPieceIndex, startOffset |-> startOffset,
     endPieceIndex |-> endPieceIndex, endOffset |-> endOffset,
     type |-> type, properties |-> [k \in {} |-> TRUE]]

\* BlockDescriptor.contains_position
contains_position(self, piece_index, offset) ==
    IF piece_index < self.startPieceIndex \/ piece_index > self.endPieceIndex
    THEN FALSE
    ELSE IF piece_index = self.startPieceIndex /\ offset < self.startOffset
    THEN FALSE
    ELSE IF piece_index = self.endPieceIndex /\ offset > self.endOffset
    THEN FALSE
    ELSE TRUE

\* FormattingManager.__init__
EmptyFormatting == [styles |-> <<>>, lines |-> <<>>, blocks |-> <<>>]

\* the tuple key (a, b) is below the key (c, d)
KeyBelow(a, b, c, d) == a < c \/ (a = c /\ b < d)

\* the sort keys: (pieceIndex, offsetInPiece) of a style range or line
\* marker, (startPieceIndex, startOffset) of a block
SortKey(x) ==
    IF "startPieceIndex" \in DOMAIN x THEN <<x.startPieceIndex, x.startOffset>>
    ELSE <<x.pieceIndex, x.offsetInPiece>>

\* one step of list.sort: x put behind the last element whose key is not
\* above its own, which keeps equal keys in their order
RECURSIVE sorted_insert(_, _)
sorted_insert(sorted, x) ==
    IF sorted = <<>> THEN <<x>>
    ELSE IF KeyBelow(SortKey(x)[1], SortKey(x)[2],
                     SortKey(sorted[Len(sorted)])[1], SortKey(sorted[Len(sorted)])[2])
    THEN Append(sorted_insert(SubSeq(sorted, 1, Len(sorted) - 1), x),
                sorted[Len(sorted)])
    ELSE Append(sorted, x)

\* list.sort by the sort key, on the first k elements
RECURSIVE sort_upto(_, _)
sort_upto(items, k) ==
    IF k = 0 THEN <<>>
    ELSE sorted_insert(sort_upto(items, k - 1), items[k])

\* FormattingManager._sort_styles and _sort_lines
sort_by_offset(items) == sort_upto(items, Len(items))

\* FormattingManager._sort_blocks
sort_blocks(items) == sort_upto(items, Len(items))

\* FormattingManager.add_style
add_style(self, style) ==
    LET kept(s) == ~(/\ overlaps(s, style)
                     /\ \E k \in DOMAIN style.styles : k \in DOMAIN s.styles)
    IN [self EXCEPT !.styles = sort_by_offset(Append(SelectSeq(self.styles, kept), style))]

\* FormattingManager.add_line_marker
add_line_marker(self, marker) ==
    LET kept(l) == ~(/\ l.pieceIndex = marker.pieceIndex
                     /\ l.offsetInPiece = marker.offsetInPiece)
    IN [self EXCEPT !.lines = sort_by_offset(Append(SelectSeq(self.lines, kept), marker))]

\* FormattingManager._blocks_overlap
blocks_overlap(b1, b2) ==
    IF b1.startPieceIndex > b2.endPieceIndex \/ b2.startPieceIndex > b1.endPieceIndex
    THEN FALSE
    ELSE IF b1.startPieceIndex = b2.endPieceIndex /\ b1.startOffset >= b2.endOffset
    THEN FALSE
    ELSE IF b2.startPieceIndex = b1.endPieceIndex /\ b2.startOffset >= b1.endOffset
    THEN FALSE
    ELSE TRUE

\* FormattingManager.add_block
add_block(self, block) ==
    LET kept(b) == ~(b.type = block.type /\ blocks_overlap(b, block))
    IN [self EXCEPT !.blocks = sort_blocks(Append(SelectSeq(self.blocks, kept), block))]

\* FormattingManager.update_positions: the lists are not sorted again
update_positions(self, piece_index, offset, delta) ==
    LET moved(x) == IF x.pieceIndex = piece_index /\ x.offsetInPiece >= offset
                    THEN [x EXCEPT !.offsetInPiece = @ + delta] ELSE x
        start_moved(b) == IF b.startPieceIndex = piece_index /\ b.startOffset >= offset
                          THEN [b EXCEPT !.startOffset = @ + delta] ELSE b
        end_moved(b) == IF b.endPieceIndex = piece_index /\ b.endOffset >= offset
                        THEN [b EXCEPT !.endOffset = @ + delta] ELSE b
    IN [styles |-> [i \in 1..Len(self.styles) |-> moved(self.styles[i])],
        lines |-> [i \in 1..Len(self.lines) |-> moved(self.lines[i])],
        blocks |-> [i \in 1..Len(self.blocks) |-> end_moved(start_moved(self.blocks[i]))]]

----------------------------------------------------------------------------
\* editor/services/merge_service.py

\* MergeService._change_to_diff
change_to_diff(change) ==
    [type |-> change.operation_type, position |-> change.position,
     content |-> change.content, attributes |-> change.attributes]

\* the length _changes_overlap computes for one diff
overlap_len(diff) ==
    IF diff.type = "insert"
    THEN IF Get(diff, "content", <<>>) = NoneText
         THEN [val |-> 0, exc |-> "TypeError"]
         ELSE [val |-> Len(Get(diff, "content", <<>>)), exc |-> "none"]
    ELSE [val |-> Get(diff, "length", 0), exc |-> "none"]

\* MergeService._changes_overlap.  diff['position'] on a list raises TypeError.
changes_overlap(diff1, diff2) ==
    IF IsList(diff1) \/ IsList(diff2) THEN [val |-> FALSE, exc |-> "TypeError"]
    ELSE IF "position" \notin DOMAIN diff1 \/ "position" \notin DOMAIN diff2
    THEN [val |-> FALSE, exc |-> "KeyError"]
    ELSE LET len1 == overlap_len(diff1)
             len2 == overlap_len(diff2)
         IN IF len1.exc # "none" THEN [val |-> FALSE, exc |-> len1.exc]
            ELSE IF len2.exc # "none" THEN [val |-> FALSE, exc |-> len2.exc]
            ELSE [val |-> ~(\/ diff1.position + len1.val <= diff2.position
                            \/ diff2.position + len2.val <= diff1.position),
                  exc |-> "none"]

\* MergeService._combine_non_overlapping_diffs
combine_non_overlapping_diffs(diff1, diff2) ==
    LET diffs == IF diff2.position < diff1.position
                 THEN <<diff2, diff1>> ELSE <<diff1, diff2>>
    IN IF diffs[1].type = "insert"
       THEN IF "content" \notin DOMAIN diffs[1]
            THEN [val |-> PyNone, exc |-> "KeyError"]
            ELSE IF diffs[1].content = NoneText
            THEN [val |-> PyNone, exc |-> "TypeError"]
            ELSE [val |-> [type |-> "compound",
                           operations |-> <<diffs[1],
                              [diffs[2] EXCEPT !.position = @ + Len(diffs[1].content)]>>],
                  exc |-> "none"]
       ELSE IF diffs[1].type = "delete"
       THEN [val |-> [type |-> "compound",
                      operations |-> <<diffs[1],
                         [diffs[2] EXCEPT !.position = @ - Get(diffs[1], "length", 0)]>>],
             exc |-> "none"]
       ELSE [val |-> [type |-> "compound", operations |-> diffs], exc |-> "none"]

\* {**a, **b}
MergeDicts(a, b) ==
    [k \in DOMAIN a \cup DOMAIN b |-> IF k \in DOMAIN b THEN b[k] ELSE a[k]]

EmptyDict == [k \in {} |-> TRUE]

\* _merge_style_changes with the first style's attributes taking precedence
merge_style_changes_first_wins(style1, style2) ==
    IF Get(style1, "attributes", EmptyDict) = PyNone
       \/ Get(style2, "attributes", EmptyDict) = PyNone
    THEN [val |-> PyNone, exc |-> "TypeError"]
    ELSE IF "length" \notin DOMAIN style1
    THEN [val |-> PyNone, exc |-> "KeyError"]
    ELSE [val |-> [type |-> "style", position |-> style1.position,
                   length |-> style1.length,
                   attributes |-> MergeDicts(Get(style2, "attributes", EmptyDict),
                                             Get(style1, "attributes", EmptyDict))],
          exc |-> "none"]

\* MergeService._merge_style_changes
merge_style_changes(style1, style2) ==
    IF Get(style1, "attributes", EmptyDict) = PyNone
       \/ Get(style2, "attributes", EmptyDict) = PyNone
    THEN [val |-> PyNone, exc |-> "TypeError"]
    ELSE IF "length" \notin DOMAIN style1
    THEN [val |-> PyNone, exc |-> "KeyError"]
    ELSE [val |-> [type |-> "style", position |-> style1.position,
                   length |-> style1.length,
                   attributes |-> MergeDicts(Get(style1, "attributes", EmptyDict),
                                             Get(style2, "attributes", EmptyDict))],
          exc |-> "none"]

\* _resolve_conflict keeping the current diff of a text conflict
resolve_conflict_current_wins(current_diff, change_diff) ==
    IF current_diff.type = "style" /\ change_diff.type = "style"
    THEN merge_style_changes(current_diff, change_diff)
    ELSE [val |-> current_diff, exc |-> "none"]

\* MergeService._resolve_conflict
resolve_conflict(current_diff, change_diff) ==
    IF current_diff.type = "style" /\ change_diff.type = "style"
    THEN merge_style_changes(current_diff, change_diff)
    ELSE [val |-> change_diff, exc |-> "none"]

\* MergeService._merge_diffs
merge_diffs(current_diff, change_diff) ==
    LET ov == changes_overlap(current_diff, change_diff)
    IN IF ov.exc # "none" THEN [val |-> PyNone, exc |-> ov.exc]
       ELSE IF ~ov.val THEN combine_non_overlapping_diffs(current_diff, change_diff)
       ELSE resolve_conflict(current_diff, change_diff)

\* MergeService._apply_single_operation.  The style branch calls _apply_style,
\* whose first statement after the position lookup builds a StyleRange, a name
\* merge_service.py never imports: NameError.
apply_single_operation(piece_table, operation) ==
    IF "type" \notin DOMAIN operation \/ "position" \notin DOMAIN operation
    THEN [table |-> piece_table, exc |-> "KeyError"]
    ELSE CASE operation.type = "insert" ->
                IF "content" \notin DOMAIN operation
                THEN [table |-> piece_table, exc |-> "KeyError"]
                ELSE IF operation.content = NoneText
                THEN [table |-> piece_table, exc |-> "none"]
                ELSE insert(piece_table, operation.position, operation.content)
           [] operation.type = "delete" ->
                IF "length" \notin DOMAIN operation
                THEN [table |-> piece_table, exc |-> "KeyError"]
                ELSE delete(piece_table, operation.position, operation.length)
           [] operation.type = "style" ->
                IF "length" \notin DOMAIN operation \/ "attributes" \notin DOMAIN operation
                THEN [table |-> piece_table, exc |-> "KeyError"]
                ELSE [table |-> piece_table, exc |-> "NameError"]
           [] OTHER -> [table |-> piece_table, exc |-> "none"]

RECURSIVE apply_operations(_, _, _)
apply_operations(piece_table, operations, k) ==
    IF k > Len(operations) THEN [table |-> piece_table, exc |-> "none"]
    ELSE LET r == apply_single_operation(piece_table, operations[k])
         IN IF r.exc # "none" THEN r
            ELSE apply_operations(r.table, operations, k + 1)

\* MergeService._apply_merged_changes on the loaded document: the persisted
\* document row and version log after the call and the exception it ended
\* with.  Nothing wraps the two writes in a transaction: when the version row
\* is refused the saved document stays.
apply_merged_changes(document, log, merged_diff) ==
    LET failed(exc) == [doc |-> document, log |-> log, exc |-> exc]
        \* document.versions.create after document.save()
        created(saved, row) == [doc |-> saved, log |-> row.log, exc |-> row.exc]
        \* current_version += 0.1; update_content(piece_table)
        updated(content) ==
            IF content.exc # "none" THEN failed(content.exc)
            ELSE created([current_version |-> document.current_version + 1,
                          content |-> content.json],
                         create_version_row(log, document.current_version + 1,
                                            content.json))
        operated(applied) ==
            IF applied.exc # "none" THEN failed(applied.exc)
            ELSE updated(to_json(applied.table))
        loaded(piece_table) ==
            IF piece_table.exc # "none" THEN failed(piece_table.exc)
            ELSE IF merged_diff.type = "compound"
            THEN operated(apply_operations(piece_table.table, merged_diff.operations, 1))
            ELSE operated(apply_single_operation(piece_table.table, merged_diff))
    IN loaded(get_piece_table(document))

\* MergeService.apply_change: what it returns ("True", "False") or the
\* exception that leaves it, and the persisted document and log afterwards.
\* A change that is a plain dict has no source_version attribute.  The calls up
\* to and including _merge_diffs stand outside the try; create_diff returns a
\* list.
apply_change(document, log, change) ==
    LET raised(exc) == [ret |-> "raise", exc |-> exc, doc |-> document, log |-> log]
        \* try: _apply_merged_changes; return True / except Exception: return False
        applied(r) == [ret |-> IF r.exc # "none" THEN "False" ELSE "True",
                       exc |-> "none", doc |-> r.doc, log |-> r.log]
        merged(merged_diff) ==
            IF merged_diff.exc # "none" THEN raised(merged_diff.exc)
            ELSE applied(apply_merged_changes(document, log, merged_diff.val))
        diffed(current_diff) ==
            IF current_diff.exc # "none" THEN raised(current_diff.exc)
            ELSE merged(merge_diffs(PyList(current_diff.ops), change_to_diff(change)))
        loaded(base_version, current_table) ==
            IF current_table.exc # "none" THEN raised(current_table.exc)
            ELSE diffed(create_diff(from_json(base_version.content),
                                    current_table.table))
        found(base_version) ==
            IF base_version = PyNone
            THEN [ret |-> "False", exc |-> "none", doc |-> document, log |-> log]
            ELSE loaded(base_version, get_piece_table(document))
    IN IF "source_version" \notin DOMAIN change THEN raised("AttributeError")
       ELSE found(find_version(log, change.source_version, 1))

----------------------------------------------------------------------------
\* utils/version_control.py.  `document` is the Document object the caller
\* holds, `stored` the document row and `log` the DocumentVersion rows in the
\* database.  Each result gives what the call returns (or "raise"), the
\* exception, and the rows after the call; a transaction.atomic block that is
\* left by an exception, or marked for rollback, leaves the rows as they were.

\* VersionControl.get_version
get_version(log, version_number) == find_version(log, version_number, 1)

\* a create_version that saves the document and creates no DocumentVersion row
create_version_no_row(document, stored, log) ==
    [ret |-> "version", exc |-> "none",
     doc |-> [document EXCEPT !.current_version = @ + 1], log |-> log]

\* VersionControl.create_version
create_version(document, stored, log) ==
    LET saved == [document EXCEPT !.current_version = @ + 1]
        row == create_version_row(log, saved.current_version, saved.content)
    IN IF row.exc # "none"
       THEN [ret |-> "raise", exc |-> row.exc, doc |-> stored, log |-> log]
       ELSE [ret |-> "version", exc |-> "none", doc |-> saved, log |-> row.log]

\* VersionControl.restore_version keeping the content of the document object
VersionControl_restore_version_kept_content(document, stored, log, version_number) ==
    LET version == get_version(log, version_number)
        saved == [current_version |-> document.current_version + 1,
                  content |-> document.content]
        row == create_version_row(log, saved.current_version, saved.content)
    IN IF version = PyNone
       THEN [ret |-> "False", exc |-> "none", doc |-> stored, log |-> log]
       ELSE IF row.exc # "none"
       THEN [ret |-> "raise", exc |-> row.exc, doc |-> stored, log |-> log]
       ELSE [ret |-> "True", exc |-> "none", doc |-> saved, log |-> row.log]

\* VersionControl.restore_version
VersionControl_restore_version(document, stored, log, version_number) ==
    LET version == get_version(log, version_number)
        saved == [current_version |-> document.current_version + 1,
                  content |-> version.content]
        row == create_version_row(log, saved.current_version, saved.content)
    IN IF version = PyNone
       THEN [ret |-> "False", exc |-> "none", doc |-> stored, log |-> log]
       ELSE IF row.exc # "none"
       THEN [ret |-> "raise", exc |-> row.exc, doc |-> stored, log |-> log]
       ELSE [ret |-> "True", exc |-> "none", doc |-> saved, log |-> row.log]

\* the dict VersionControl._apply_change appends to piece_table.styles
StyleDict(piece_index, change) ==
    [pieceIndex |-> piece_index, startOffset |-> change.position,
     length |-> Get(change.attributes, "length", 1),
     attributes |-> Get(change.attributes, "styles", EmptyDict)]

\* the dict VersionControl._apply_change appends to piece_table.lines
LineDict(piece_index, change) ==
    [pieceIndex |-> piece_index, offset |-> change.position,
     type |-> Get(change.attributes, "lineType", "paragraph"),
     properties |-> Get(change.attributes, "properties", EmptyDict)]

\* VersionControl._apply_change.  change.attributes is None for a Change stored
\* without attributes: .get on it raises AttributeError.
VersionControl_apply_change(piece_table, change) ==
    CASE change.operation_type = "insert" ->
            IF change.content = NoneText
            THEN [table |-> piece_table, exc |-> "none"]
            ELSE insert(piece_table, change.position, change.content)
      [] change.operation_type = "delete" ->
            IF change.attributes = PyNone
            THEN [table |-> piece_table, exc |-> "AttributeError"]
            ELSE delete(piece_table, change.position,
                        Get(change.attributes, "length", 1))
      [] change.operation_type = "style" ->
            IF change.attributes = PyNone
            THEN [table |-> piece_table, exc |-> "AttributeError"]
            ELSE [table |->
                    [piece_table EXCEPT !.styles = Append(@,
                        StyleDict(find_piece_at_position(piece_table,
                                                         change.position)[1], change))],
                  exc |-> "none"]
      [] change.operation_type = "line" ->
            IF change.attributes = PyNone
            THEN [table |-> piece_table, exc |-> "AttributeError"]
            ELSE [table |->
                    [piece_table EXCEPT !.lines = Append(@,
                        LineDict(find_piece_at_position(piece_table,
                                                        change.position)[1], change))],
                  exc |-> "none"]
      [] OTHER -> [table |-> piece_table, exc |-> "none"]

\* the loop of record_changes over the changes from the k-th on
RECURSIVE apply_changes_from(_, _, _)
apply_changes_from(piece_table, change_list, k) ==
    IF k > Len(change_list) THEN [table |-> piece_table, exc |-> "none"]
    ELSE LET r == VersionControl_apply_change(piece_table, change_list[k])
         IN IF r.exc # "none" THEN r
            ELSE apply_changes_from(r.table, change_list, k + 1)

\* record_changes that saves the document and creates no DocumentVersion row
record_rebuilt_no_row(document, stored, log, piece_table) ==
    LET content == to_json(piece_table)
    IN IF content.exc # "none"
       THEN [ret |-> "False", exc |-> "none", doc |-> stored, log |-> log]
       ELSE [ret |-> "True", exc |-> "none",
             doc |-> [current_version |-> document.current_version + 1,
                      content |-> content.json],
             log |-> log]

\* the tail of record_changes once the piece table is rebuilt
record_rebuilt(document, stored, log, piece_table) ==
    LET content == to_json(piece_table)
        saved == [current_version |-> document.current_version + 1,
                  content |-> content.json]
        row == create_version_row(log, saved.current_version, saved.content)
    IN IF content.exc # "none" \/ row.exc # "none"
       THEN [ret |-> "False", exc |-> "none", doc |-> stored, log |-> log]
       ELSE [ret |-> "True", exc |-> "none", doc |-> saved, log |-> row.log]

\* VersionControl.record_changes.  changes[0] of an empty list raises
\* IndexError; every exception is caught, the transaction rolled back and
\* False returned.
record_changes(document, stored, log, change_list) ==
    LET failed == [ret |-> "False", exc |-> "none", doc |-> stored, log |-> log]
        base_version == get_version(log, change_list[1].source_version)
        rebuilt == apply_changes_from(from_json(base_version.content), change_list, 1)
    IN IF change_list = <<>> THEN failed
       ELSE IF base_version = PyNone THEN failed
       ELSE IF rebuilt.exc # "none" THEN failed
       ELSE record_rebuilt(document, stored, log, rebuilt.table)

\* sorted(diff, key=lambda x: x['position']): the first k operations in order
\* of position, operations of one position in their order in diff
RECURSIVE sorted_by_position(_, _)
sorted_by_position(diff, k) ==
    IF k = 0 THEN <<>>
    ELSE LET head == sorted_by_position(diff, k - 1)
             at == Cardinality({i \in 1..Len(head) :
                                   head[i].position <= diff[k].position})
         IN SubSeq(head, 1, at) \o <<diff[k]>> \o SubSeq(head, at + 1, Len(head))

\* VersionControl._adjust_operation
adjust_operation(op, offset) == [op EXCEPT !.position = @ + offset]

\* VersionControl._get_position_offset: None for an operation that is neither
\* an insert nor a delete
get_position_offset(op) ==
    IF op.type = "insert" THEN [val |-> Len(op.content), none |-> FALSE]
    ELSE IF op.type = "delete" THEN [val |-> 0 - op.length, none |-> FALSE]
    ELSE [val |-> 0, none |-> TRUE]

\* the loops of VersionControl._merge_diffs from the i-th and j-th operation
\* on; pos_offset += None raises TypeError
RECURSIVE merge_sorted_from(_, _, _, _, _, _)
merge_sorted_from(sorted_diff1, sorted_diff2, i, j, pos_offset, merged) ==
    IF i <= Len(sorted_diff1) /\ j <= Len(sorted_diff2)
    THEN IF sorted_diff1[i].position + pos_offset < sorted_diff2[j].position + pos_offset
         THEN IF get_position_offset(sorted_diff1[i]).none
              THEN [val |-> PyNone, exc |-> "TypeError"]
              ELSE merge_sorted_from(sorted_diff1, sorted_diff2, i + 1, j,
                     pos_offset + get_position_offset(sorted_diff1[i]).val,
                     Append(merged, adjust_operation(sorted_diff1[i], pos_offset)))
         ELSE IF get_position_offset(sorted_diff2[j]).none
              THEN [val |-> PyNone, exc |-> "TypeError"]
              ELSE merge_sorted_from(sorted_diff1, sorted_diff2, i, j + 1,
                     pos_offset + get_position_offset(sorted_diff2[j]).val,
                     Append(merged, adjust_operation(sorted_diff2[j], pos_offset)))
    ELSE IF i <= Len(sorted_diff1)
    THEN merge_sorted_from(sorted_diff1, sorted_diff2, i + 1, j, pos_offset,
                           Append(merged, adjust_operation(sorted_diff1[i], pos_offset)))
    ELSE IF j <= Len(sorted_diff2)
    THEN merge_sorted_from(sorted_diff1, sorted_diff2, i, j + 1, pos_offset,
                           Append(merged, adjust_operation(sorted_diff2[j], pos_offset)))
    ELSE [val |-> merged, exc |-> "none"]

\* VersionControl._merge_diffs
VersionControl_merge_diffs(diff1, diff2) ==
    merge_sorted_from(sorted_by_position(diff1, Len(diff1)),
                      sorted_by_position(diff2, Len(diff2)), 1, 1, 0, <<>>)

\* VersionControl.merge_versions: None, or the result table and merged diff,
\* or the exception that leaves the call.  Nothing is written.
merge_versions(log, base_version, version1, version2) ==
    LET base == get_version(log, base_version)
        v1 == get_version(log, version1)
        v2 == get_version(log, version2)
        raised(exc) == [ret |-> "raise", exc |-> exc, table |-> EmptyTable,
                        merged_diff |-> <<>>]
        applied(merged_diff, r) ==
            IF r.exc # "none" THEN raised(r.exc)
            ELSE [ret |-> "tuple", exc |-> "none", table |-> r.table,
                  merged_diff |-> merged_diff]
        merged(m) ==
            IF m.exc # "none" THEN raised(m.exc)
            ELSE applied(m.val, apply_diff(from_json(base.content), m.val))
        diffed(diff1, diff2) ==
            IF diff1.exc # "none" THEN raised(diff1.exc)
            ELSE IF diff2.exc # "none" THEN raised(diff2.exc)
            ELSE merged(VersionControl_merge_diffs(diff1.ops, diff2.ops))
    IN IF base = PyNone \/ v1 = PyNone \/ v2 = PyNone
       THEN [ret |-> "None", exc |-> "none", table |-> EmptyTable,
             merged_diff |-> <<>>]
       ELSE diffed(create_diff(from_json(base.content), from_json(v1.content)),
                   create_diff(from_json(base.content), from_json(v2.content)))

----------------------------------------------------------------------------
\* editor/services/document_service.py

\* a restore that puts the document row back to the restored snapshot, version
\* number included, and creates no row
restore_version_rollback(document, stored, log, version_number) ==
    LET version == find_version(log, version_number, 1)
    IN IF version = PyNone
       THEN [ret |-> "False", exc |-> "none", doc |-> stored, log |-> log]
       ELSE [ret |-> "True", exc |-> "none",
             doc |-> [current_version |-> version.version, content |-> version.content],
             log |-> log]

\* DocumentService.restore_version.  Only ObjectDoesNotExist is caught.
restore_version(document, stored, log, version_number) ==
    LET version == find_version(log, version_number, 1)
        saved == [current_version |-> document.current_version + 1,
                  content |-> version.content]
        row == create_version_row(log, saved.current_version, saved.content)
    IN IF version = PyNone
       THEN [ret |-> "False", exc |-> "none", doc |-> stored, log |-> log]
       ELSE IF row.exc # "none"
       THEN [ret |-> "raise", exc |-> row.exc, doc |-> stored, log |-> log]
       ELSE [ret |-> "True", exc |-> "none", doc |-> saved, log |-> row.log]

\* the loop of DocumentService.apply_changes from the k-th change on: whether
\* every apply_change returned True, and the document and log they left
RECURSIVE apply_each(_, _, _, _)
apply_each(document, log, change_list, k) ==
    LET next(r) == IF r.ret # "True" THEN [ok |-> FALSE, doc |-> r.doc, log |-> r.log]
                   ELSE apply_each(r.doc, r.log, change_list, k + 1)
    IN IF k > Len(change_list) THEN [ok |-> TRUE, doc |-> document, log |-> log]
       ELSE next(apply_change(document, log, change_list[k]))

\* an apply_changes that does not look at what apply_change returned or raised
apply_changes_unchecked(document, stored, log, change_list) ==
    LET done(r) ==
            [ret |-> "True", exc |-> "none",
             doc |-> IF change_list = <<>> THEN stored ELSE r.doc, log |-> r.log]
    IN done(apply_each(document, log, change_list, 1))

\* DocumentService.apply_changes: a False or an exception from apply_change
\* rolls the transaction back and gives False
apply_changes(document, stored, log, change_list) ==
    LET done(r) ==
            IF r.ok
            THEN [ret |-> "True", exc |-> "none",
                  doc |-> IF change_list = <<>> THEN stored ELSE r.doc, log |-> r.log]
            ELSE [ret |-> "False", exc |-> "none", doc |-> stored, log |-> log]
    IN done(apply_each(document, log, change_list, 1))

----------------------------------------------------------------------------
\* editor/consumers/document_consumer.py.  `group` is the set of connections
\* in the document's channel-layer group; a message written to a socket is
\* recorded as [to |-> connection, msg |-> payload].

Sent(conn, msg) == [to |-> conn, msg |-> msg]

\* scope['user_id'] of the connections that carry one: c1 and c3 are two
\* connections of the same user
ScopeUserId == [c \in {"c1", "c3"} |-> "u1"]

\* self.user_id: scope['user_id'], or without one a string unique to the consumer
user_id(conn) == IF conn \in DOMAIN ScopeUserId THEN ScopeUserId[conn] ELSE conn

\* DocumentConsumer.create_change
create_change(data) ==
    Change(data.sourceVersion, data.operation.type, data.operation.position,
           Get(data.operation, "content", NoneText),
           Get(data.operation, "attributes", PyNone))

\* DocumentConsumer.document_change run by every consumer of the group
document_change(group, event) ==
    {Sent(c, [type |-> "document_change", change |-> event.change,
              user_id |-> event.user_id, new_version |-> event.new_version]) :
        c \in {m \in group : event.user_id # user_id(m)}}

\* DocumentConsumer.handle_operation from `if success:` on: the group_send of
\* document_change with the version of the Document object, and the handlers
\* it starts
broadcast_change(conn, data, new_version, group) ==
    document_change(group, [change |-> data, user_id |-> user_id(conn),
                            new_version |-> new_version])

\* cursor_position handlers that forward the event without comparing user ids
cursor_position_unfiltered(group, event) ==
    {Sent(c, [type |-> "cursor_position", user_id |-> event.user_id,
              position |-> event.position]) : c \in group}

\* DocumentConsumer.cursor_position run by every consumer of the group
cursor_position(group, event) ==
    {Sent(c, [type |-> "cursor_position", user_id |-> event.user_id,
              position |-> event.position]) :
        c \in {m \in group : event.user_id # user_id(m)}}

\* DocumentConsumer.handle_cursor_update
handle_cursor_update(conn, data, group) ==
    cursor_position(group, [user_id |-> user_id(conn), position |-> data.position])

\* DocumentConsumer.handle_sync_request: the stored document goes to the
\* requesting connection only
handle_sync_request(conn, stored) ==
    {Sent(conn, [type |-> "sync_response", content |-> stored.content,
                 version |-> stored.current_version])}

\* DocumentConsumer.user_disconnected run by every consumer of the group
user_disconnected(group, event) ==
    {Sent(c, [type |-> "user_disconnected", user_id |-> event.user_id]) : c \in group}

\* DocumentConsumer.connect: joins the group and sends the document state
connect(conn, stored, group) ==
    [group |-> group \cup {conn},
     sent |-> {Sent(conn, [type |-> "document_state", content |-> stored.content,
                           version |-> stored.current_version,
                           active_users |-> <<>>])}]

\* DocumentConsumer.disconnect: the group message goes out before the consumer
\* leaves the group; the leaving consumer stops without handling it
disconnect(conn, group) ==
    [group |-> group \ {conn},
     sent |-> user_disconnected(group \ {conn}, [user_id |-> user_id(conn)])]

\* a handler that records the Change before it compares the versions
handle_operation_record_first(conn, data, stored, log, change_rows, group) ==
    IF data.sourceVersion # stored.current_version
    THEN [ret |-> "sync_required", exc |-> "none", merged |-> FALSE,
          doc |-> stored, log |-> log,
          changes |-> Append(change_rows, create_change(data)),
          sent |-> {Sent(conn, [type |-> "sync_required",
                                currentVersion |-> stored.current_version])}]
    ELSE [ret |-> "raise", exc |-> "NameError", merged |-> TRUE,
          doc |-> stored, log |-> log,
          changes |-> Append(change_rows, create_change(data)), sent |-> {}]

\* a handler that asks for a resync only when the base snapshot is not in the
\* log, and hands every other operation to the merge service
handle_operation_retained_base(conn, data, stored, log, change_rows, group) ==
    IF find_version(log, data.sourceVersion, 1) = PyNone
    THEN [ret |-> "sync_required", exc |-> "none", merged |-> FALSE,
          doc |-> stored, log |-> log, changes |-> change_rows,
          sent |-> {Sent(conn, [type |-> "sync_required",
                                currentVersion |-> stored.current_version])}]
    ELSE [ret |-> "raise", exc |-> "NameError", merged |-> TRUE,
          doc |-> stored, log |-> log,
          changes |-> Append(change_rows, create_change(data)), sent |-> {}]

\* a handler that leaves an operation whose base snapshot is not in the log to
\* the merge service, which returns False for it
handle_operation_unchecked_base(conn, data, stored, log, change_rows, group) ==
    IF /\ data.sourceVersion # stored.current_version
       /\ find_version(log, data.sourceVersion, 1) # PyNone
    THEN [ret |-> "sync_required", exc |-> "none", merged |-> FALSE,
          doc |-> stored, log |-> log, changes |-> change_rows,
          sent |-> {Sent(conn, [type |-> "sync_required",
                                currentVersion |-> stored.current_version])}]
    ELSE [ret |-> IF find_version(log, data.sourceVersion, 1) = PyNone
                  THEN "False" ELSE "raise",
          exc |-> IF find_version(log, data.sourceVersion, 1) = PyNone
                  THEN "none" ELSE "NameError",
          merged |-> TRUE, doc |-> stored, log |-> log,
          changes |-> Append(change_rows, create_change(data)), sent |-> {}]

\* DocumentConsumer.handle_operation on the document row it loads: the rows
\* and Change records afterwards, the messages written, what apply_change
\* returned (or "sync_required"), and whether the merge service was called.
\* The Change record is created before apply_change and outside any
\* transaction; an exception from apply_change leaves the handler.
handle_operation(conn, data, stored, log, change_rows, group) ==
    IF data.sourceVersion # stored.current_version
    THEN [ret |-> "sync_required", exc |-> "none", merged |-> FALSE,
          doc |-> stored, log |-> log, changes |-> change_rows,
          sent |-> {Sent(conn, [type |-> "sync_required",
                                currentVersion |-> stored.current_version])}]
    ELSE LET handled(change, r) ==
                [ret |-> r.ret, exc |-> r.exc, merged |-> TRUE,
                 doc |-> r.doc, log |-> r.log,
                 changes |-> Append(change_rows, change),
                 sent |-> IF r.ret = "True"
                          THEN broadcast_change(conn, data, r.doc.current_version,
                                                group)
                          ELSE {}]
         IN handled(create_change(data),
                    apply_change(stored, log, create_change(data)))

\* the handler left by an exception before anything was written or sent
receive_raised(exc, stored, log, change_rows) ==
    [ret |-> "none", exc |-> exc, merged |-> FALSE, doc |-> stored, log |-> log,
     changes |-> change_rows, sent |-> {}]

\* DocumentConsumer.receive of one text frame: `frame.valid` tells whether
\* json.loads accepts the text, `frame.data` is the decoded object.  No
\* exception is caught: json.loads raises JSONDecodeError, the subscripts
\* data['sourceVersion'], data['operation'][...] and data['position'] raise
\* KeyError, and a message type without a handler is dropped.
receive(conn, frame, stored, log, change_rows, group) ==
    IF ~frame.valid
    THEN receive_raised("JSONDecodeError", stored, log, change_rows)
    ELSE IF Get(frame.data, "type", "None") = "operation"
    THEN IF "sourceVersion" \notin DOMAIN frame.data
         THEN receive_raised("KeyError", stored, log, change_rows)
         ELSE IF frame.data.sourceVersion # stored.current_version
         THEN handle_operation(conn, frame.data, stored, log, change_rows, group)
         ELSE IF \/ "operation" \notin DOMAIN frame.data
                 \/ "type" \notin DOMAIN frame.data.operation
                 \/ "position" \notin DOMAIN frame.data.operation
         THEN receive_raised("KeyError", stored, log, change_rows)
         ELSE handle_operation(conn, frame.data, stored, log, change_rows, group)
    ELSE IF Get(frame.data, "type", "None") = "cursor_update"
    THEN IF "position" \notin DOMAIN frame.data
         THEN receive_raised("KeyError", stored, log, change_rows)
         ELSE [ret |-> "none", exc |-> "none", merged |-> FALSE, doc |-> stored,
               log |-> log, changes |-> change_rows,
               sent |-> handle_cursor_update(conn, frame.data, group)]
    ELSE IF Get(frame.data, "type", "None") = "sync_request"
    THEN [ret |-> "none", exc |-> "none", merged |-> FALSE, doc |-> stored,
          log |-> log, changes |-> change_rows,
          sent |-> handle_sync_request(conn, stored)]
    ELSE [ret |-> "none", exc |-> "none", merged |-> FALSE, doc |-> stored,
          log |-> log, changes |-> change_rows, sent |-> {}]

----------------------------------------------------------------------------
\* Piece-table runs: a table built from empty by insert and delete calls

NoOp == [name |-> "none", position |-> 0, text |-> <<>>, length |-> 0,
         before |-> <<>>, exc |-> "none"]

\* the websocket connections of the runs
Conns == {"c1", "c2"}

\* no handle_operation coroutine is under way
HIdle == [pc |-> "idle"]
NoHandlers == [c \in Conns |-> HIdle]

\* a third connection, for the runs of the group handlers
GroupConns == Conns \cup {"c3"}

\* no consumer has been started for the connection
NoScope == [session |-> "none"]
NoScopes == [c \in GroupConns |-> NoScope]

\* value of the diff-engine state in runs that do not use it
DIdle == [phase |-> "idle"]

\* values of the store and connection state in runs that do not use them
StoreIdle ==
    /\ doc = [current_version |-> 0]
    /\ versions = <<>>
    /\ changes = <<>>
    /\ joined = {}
    /\ outbox = {}
    /\ handlers = NoHandlers
    /\ scopes = NoScopes
    /\ last = [op |-> "none"]

PTInit ==
    /\ pt = EmptyTable
    /\ ptOp = NoOp
    /\ ptPrev = NoOp
    /\ dState = DIdle
    /\ fm = EmptyFormatting
    /\ StoreIdle

PTInsert(position, text) ==
    /\ Len(pt.add_buffer) + Len(text) <= MaxAdd
    /\ \E r \in {insert(pt, position, text)} :
          /\ pt' = r.table
          /\ ptOp' = [name |-> "insert", position |-> position, text |-> text,
                      length |-> 0, before |-> get_text(pt), exc |-> r.exc]
    /\ ptPrev' = ptOp
    /\ UNCHANGED <<dState, fm, storeVars, connVars, last>>

PTDelete(position, length) ==
    /\ \E r \in {delete(pt, position, length)} :
          /\ pt' = r.table
          /\ ptOp' = [name |-> "delete", position |-> position, text |-> <<>>,
                      length |-> length, before |-> get_text(pt), exc |-> r.exc]
    /\ ptPrev' = ptOp
    /\ UNCHANGED <<dState, fm, storeVars, connVars, last>>

\* positions and lengths one past each end of the text are tried too
PTNext ==
    \/ \E position \in -1..(Len(get_text(pt)) + 1), n \in 0..MaxInsert :
          PTInsert(position, Fresh(Len(pt.add_buffer), n))
    \/ \E position \in -1..(Len(get_text(pt)) + 1), length \in 0..(Len(get_text(pt)) + 1) :
          PTDelete(position, length)

SpecPT == PTInit /\ [][PTNext]_vars

----------------------------------------------------------------------------
\* Diff runs: create_diff(a, b) and then apply_diff(a, ops), for tables a and b
\* holding any two texts over Alphabet of at most MaxDiffLen characters

RECURSIVE append_each(_, _, _)
append_each(table, text, k) ==
    IF k > Len(text) THEN table
    ELSE append_each(insert(table, Len(get_text(table)), <<text[k]>>).table, text, k + 1)

\* a table holding text: typed in one insert call ("one") or one character per
\* call ("each")
TableOf(text, shape) ==
    IF shape = "one" THEN insert(EmptyTable, 0, text).table
    ELSE append_each(EmptyTable, text, 1)

Shapes == {"one", "each"}

DInit ==
    /\ pt = EmptyTable
    /\ fm = EmptyFormatting
    /\ ptOp = NoOp
    /\ ptPrev = NoOp
    /\ StoreIdle
    /\ \E a \in Texts(0, MaxDiffLen), b \in Texts(0, MaxDiffLen), sa \in Shapes, sb \in Shapes :
          dState = [phase |-> "start", source |-> TableOf(a, sa), target |-> TableOf(b, sb),
                    ops |-> <<>>, exc |-> "none", result |-> TableOf(a, sa)]

\* ops = create_diff(source, target)
DCreateDiff ==
    /\ dState.phase = "start"
    /\ LET r == create_diff(dState.source, dState.target)
       IN dState' = [dState EXCEPT !.phase = IF r.exc = "none" THEN "diffed" ELSE "failed",
                                   !.ops = r.ops, !.exc = r.exc]
    /\ UNCHANGED <<ptVars, fm, storeVars, connVars, last>>

\* apply_diff(source, ops)
DApplyDiff ==
    /\ dState.phase = "diffed"
    /\ LET r == apply_diff(dState.source, dState.ops)
       IN dState' = [dState EXCEPT !.phase = "applied", !.result = r.table, !.exc = r.exc]
    /\ UNCHANGED <<ptVars, fm, storeVars, connVars, last>>

DNext == DCreateDiff \/ DApplyDiff

SpecDiff == DInit /\ [][DNext]_vars

----------------------------------------------------------------------------
\* Optimization runs: the operation list of the LCS walk for a source table
\* and a target text, before and after _optimize_operations, each applied to
\* the source table by apply_diff

OptInit ==
    /\ pt \in {TableOf(a, sa) : a \in Texts(0, MaxDiffLen), sa \in Shapes}
    /\ ptOp = NoOp
    /\ ptPrev = NoOp
    /\ dState = DIdle
    /\ fm = EmptyFormatting
    /\ StoreIdle

OptimizeOperations(target) ==
    /\ \E operations \in {walk_lcs(get_text(pt), target,
                                   get_lcs(get_text(pt), target), 1, 0, 0)} :
          \E plain \in {apply_diff(pt, operations)},
             merged \in {apply_diff(pt, optimize_operations(operations))} :
              last' = [op |-> "optimize", source |-> get_text(pt), target |-> target,
                       operations |-> operations,
                       optimized |-> optimize_operations(operations),
                       plain |-> [text |-> get_text(plain.table), exc |-> plain.exc],
                       merged |-> [text |-> get_text(merged.table), exc |-> merged.exc]]
    /\ UNCHANGED <<ptVars, dState, fm, storeVars, connVars>>

OptNext == \E target \in Texts(0, MaxDiffLen) : OptimizeOperations(target)

SpecOptimize == OptInit /\ [][OptNext]_vars

----------------------------------------------------------------------------
\* Anchor runs: a table that holds a text, one StyleRange and one LineMarker
\* (as PieceTable.from_json builds it from stored content) under insert calls

\* the (piece index, offset) pairs inside the pieces of a table
AnchorPlaces(table) ==
    {<<i, o>> \in (0..(Len(table.pieces) - 1)) \X (0..(MaxInsert - 1)) :
        o < table.pieces[i + 1].length}

\* a table holding text: loaded with the text in its original buffer, or
\* typed as TableOf types it
LoadedTable(text, shape) ==
    IF shape = "original"
    THEN [EmptyTable EXCEPT !.original_buffer = text,
                            !.pieces = <<Piece("original", 0, Len(text), FALSE)>>]
    ELSE TableOf(text, shape)

\* the tables of the anchor runs, each with a one-character style range and a
\* line marker
AnchoredTables ==
    UNION {{[LoadedTable(Fresh(0, n), shape) EXCEPT
               !.styles = <<StyleRange(sp[1], sp[2], 1, [bold |-> TRUE])>>,
               !.lines = <<LineMarker(lp[1], lp[2], "paragraph", EmptyDict)>>] :
              sp \in AnchorPlaces(LoadedTable(Fresh(0, n), shape)),
              lp \in AnchorPlaces(LoadedTable(Fresh(0, n), shape))} :
           n \in 1..2, shape \in Shapes \cup {"original"}}

AInit ==
    /\ pt \in AnchoredTables
    /\ ptOp = NoOp
    /\ ptPrev = NoOp
    /\ dState = DIdle
    /\ fm = EmptyFormatting
    /\ StoreIdle

\* insert(position, text) with a position inside the text or at its end
AInsert(position, text) ==
    /\ Len(pt.add_buffer) + Len(text) <= MaxAdd
    /\ \E r \in {insert(pt, position, text)} :
          /\ pt' = r.table
          /\ ptOp' = [name |-> "insert", position |-> position, text |-> text,
                      length |-> 0, before |-> get_text(pt), exc |-> r.exc]
          /\ last' = [op |-> "insert", position |-> position, text |-> text,
                      before |-> pt, exc |-> r.exc]
    /\ ptPrev' = ptOp
    /\ UNCHANGED <<dState, fm, doc, versions, changes, connVars>>

ANext ==
    \E position \in 0..Len(get_text(pt)) :
        AInsert(position, Fresh(Len(get_text(pt)), 1))

SpecAnchor == AInit /\ [][ANext]_vars

----------------------------------------------------------------------------
\* Inputs of the store runs

MaxPos == 2       \* largest position an operation names
MaxVersion == 12  \* versions (tenths) a run may reach
MaxChanges == 1   \* Change records a run may store
MaxRecorded == 2  \* Change records a run of interleaved handlers may store

\* texts carried by the insert operations of these runs
OpTexts == {<<"a">>, <<"a", "b">>}

\* operation dicts as the diff engine builds them
TextOps ==
    {InsertOp(p, t) : p \in 0..MaxPos, t \in OpTexts}
    \cup {DeleteOp(p, n) : p \in 0..MaxPos, n \in 1..2}

StyleOp(position, length, attributes) ==
    [type |-> "style", position |-> position, length |-> length,
     attributes |-> attributes]

\* merged diffs handed to _apply_merged_changes
MergedDiffs ==
    TextOps
    \cup {StyleOp(0, 1, [bold |-> TRUE])}
    \cup {[type |-> "compound", operations |-> <<InsertOp(0, <<"a">>), op>>] :
            op \in {InsertOp(1, <<"b">>), DeleteOp(0, 1), InsertOp(MaxPos + 2, <<"b">>)}}

\* versions a caller may name: one below the first and one above the current
SourceVersions == (InitialVersion - 1)..(doc.current_version + 1)

\* Change objects as create_change stores them: type, position, content and
\* attributes, never a length
ClientChanges ==
    {Change(v, "insert", p, <<"b">>, PyNone) : v \in SourceVersions, p \in 0..MaxPos}
    \cup {Change(v, "delete", 0, NoneText, PyNone) : v \in SourceVersions}
    \cup {Change(v, "style", 0, NoneText, [bold |-> TRUE]) : v \in SourceVersions}

\* operation messages a client sends
ClientData ==
    {[type |-> "operation", sourceVersion |-> v, operation |-> op] :
        v \in SourceVersions,
        op \in {[type |-> "insert", position |-> 0, content |-> <<"a">>],
                [type |-> "insert", position |-> MaxPos, content |-> <<"a">>],
                [type |-> "style", position |-> 0, length |-> 1,
                 attributes |-> [bold |-> TRUE]]}}

\* change lists handed to VersionControl.record_changes
ChangeLists ==
    {<<>>}
    \cup UNION {{<<Change(v, "insert", 0, <<"a">>, PyNone)>>,
                 <<Change(v, "insert", 0, <<"a">>, PyNone),
                   Change(v, "insert", 1, <<"b">>, PyNone)>>,
                 <<Change(v, "insert", 0, <<"a", "b">>, PyNone),
                   Change(v, "delete", 0, NoneText, [length |-> 1])>>,
                 <<Change(v, "delete", 0, NoneText, [length |-> 1])>>,
                 <<Change(v, "delete", 0, NoneText, PyNone)>>,
                 <<Change(v, "style", 0, NoneText, [length |-> 1])>>,
                 <<Change(v, "line", 0, NoneText, [lineType |-> "bullet"])>>} :
                v \in SourceVersions}

\* change lists handed to DocumentService.apply_changes: the view passes the
\* dicts of the request body, other callers Change objects
ServiceChangeLists ==
    {<<>>, <<[type |-> "insert", position |-> 0, content |-> <<"a">>]>>}
    \cup {<<Change(v, "insert", 0, <<"a">>, PyNone)>> : v \in SourceVersions}
    \cup {<<Change(v, "insert", 0, <<"a">>, PyNone),
             Change(v, "insert", 1, <<"b">>, PyNone)>> : v \in SourceVersions}

\* Document objects a caller may hold: the stored row, or the row as it was
\* when an earlier version was current
DocumentOf(row) == [current_version |-> row.version, content |-> row.content]

LoadedDocuments == {doc} \cup {DocumentOf(versions[k]) : k \in 1..Len(versions)}

\* DocumentService.create_document: version 1.0, empty content, first log row
CreatedDocument ==
    /\ doc = [current_version |-> InitialVersion, content |-> InitialContent]
    /\ versions = <<[version |-> InitialVersion, content |-> InitialContent]>>
    /\ changes = <<>>

----------------------------------------------------------------------------
\* Store runs shared by the merge-service runs and the session runs: calls of
\* VersionControl and DocumentService on one created document

RestoreVersion(document, version_number) ==
    /\ doc.current_version < MaxVersion
    /\ \E r \in {restore_version(document, doc, versions, version_number)} :
          /\ doc' = r.doc
          /\ versions' = r.log
          /\ last' = [op |-> "restore_version", arg |-> version_number,
                      ret |-> r.ret, exc |-> r.exc, before |-> doc]
    /\ outbox' = {}
    /\ UNCHANGED <<ptVars, dState, fm, changes, joined, scopes, handlers>>

VCRestoreVersion(document, version_number) ==
    /\ doc.current_version < MaxVersion
    /\ \E r \in {VersionControl_restore_version(document, doc, versions, version_number)} :
          /\ doc' = r.doc
          /\ versions' = r.log
          /\ last' = [op |-> "VersionControl.restore_version", arg |-> version_number,
                      ret |-> r.ret, exc |-> r.exc, before |-> doc]
    /\ outbox' = {}
    /\ UNCHANGED <<ptVars, dState, fm, changes, joined, scopes, handlers>>

VCCreateVersion(document) ==
    /\ doc.current_version < MaxVersion
    /\ \E r \in {create_version(document, doc, versions)} :
          /\ doc' = r.doc
          /\ versions' = r.log
          /\ last' = [op |-> "create_version", arg |-> document.current_version,
                      ret |-> r.ret, exc |-> r.exc, before |-> doc]
    /\ outbox' = {}
    /\ UNCHANGED <<ptVars, dState, fm, changes, joined, scopes, handlers>>

VCRecordChanges(document, change_list) ==
    /\ doc.current_version < MaxVersion
    /\ \E r \in {record_changes(document, doc, versions, change_list)} :
          /\ doc' = r.doc
          /\ versions' = r.log
          /\ last' = [op |-> "record_changes", arg |-> change_list,
                      ret |-> r.ret, exc |-> r.exc, before |-> doc]
    /\ outbox' = {}
    /\ UNCHANGED <<ptVars, dState, fm, changes, joined, scopes, handlers>>

ApplyChanges(document, change_list) ==
    /\ \E r \in {apply_changes(document, doc, versions, change_list)} :
          /\ doc' = r.doc
          /\ versions' = r.log
          /\ last' = [op |-> "apply_changes", arg |-> change_list,
                      ret |-> r.ret, exc |-> r.exc, before |-> doc]
    /\ outbox' = {}
    /\ UNCHANGED <<ptVars, dState, fm, changes, joined, scopes, handlers>>

----------------------------------------------------------------------------
\* Merge-service runs: MergeService called directly on a created document
\* whose history VersionControl.record_changes builds

MInit ==
    /\ pt = EmptyTable
    /\ ptOp = NoOp
    /\ ptPrev = NoOp
    /\ dState = DIdle
    /\ fm = EmptyFormatting
    /\ CreatedDocument
    /\ joined = {}
    /\ outbox = {}
    /\ handlers = NoHandlers
    /\ scopes = NoScopes
    /\ last = [op |-> "none"]

\* MergeService()._apply_merged_changes(document, merged_diff)
MApplyMerged(merged_diff) ==
    /\ \E r \in {apply_merged_changes(doc, versions, merged_diff)} :
          /\ doc' = r.doc
          /\ versions' = r.log
          /\ last' = [op |-> "apply_merged_changes", arg |-> merged_diff,
                      ret |-> IF r.exc = "none" THEN "None" ELSE "raise",
                      exc |-> r.exc, before |-> doc]
    /\ outbox' = {}
    /\ UNCHANGED <<ptVars, dState, fm, changes, joined, scopes, handlers>>

\* MergeService().apply_change(document, change)
MApplyChange(change) ==
    /\ \E r \in {apply_change(doc, versions, change)} :
          /\ doc' = r.doc
          /\ versions' = r.log
          /\ last' = [op |-> "apply_change", arg |-> change,
                      ret |-> r.ret, exc |-> r.exc, before |-> doc]
    /\ outbox' = {}
    /\ UNCHANGED <<ptVars, dState, fm, changes, joined, scopes, handlers>>

MNext ==
    \/ \E merged_diff \in MergedDiffs : MApplyMerged(merged_diff)
    \/ \E change \in ClientChanges : MApplyChange(change)
    \/ \E change_list \in ChangeLists : VCRecordChanges(doc, change_list)

SpecMerge == MInit /\ [][MNext]_vars

----------------------------------------------------------------------------
\* Three-way merge runs: VersionControl.merge_versions on a log that
\* record_changes and restore_version build

MergeVersions(base_version, version1, version2) ==
    /\ \E r \in {merge_versions(versions, base_version, version1, version2)} :
          last' = [op |-> "merge_versions", base |-> base_version,
                   v1 |-> version1, v2 |-> version2, ret |-> r.ret,
                   exc |-> r.exc, text |-> get_text(r.table),
                   before |-> [doc |-> doc, log |-> versions]]
    /\ outbox' = {}
    /\ UNCHANGED <<ptVars, dState, fm, storeVars, joined, scopes, handlers>>

TNext ==
    \/ \E change_list \in ChangeLists : VCRecordChanges(doc, change_list)
    \/ \E version_number \in SourceVersions : VCRestoreVersion(doc, version_number)
    \/ \E base_version \in SourceVersions, version1 \in SourceVersions,
          version2 \in SourceVersions :
          MergeVersions(base_version, version1, version2)

SpecThreeWay == MInit /\ [][TNext]_vars

----------------------------------------------------------------------------
\* Conflict runs: MergeService()._merge_diffs(current_diff, change_diff) called
\* with one operation of a diff and the dict _change_to_diff makes of a Change

\* attribute maps of the style operations
AttrMaps == {[bold |-> TRUE], [bold |-> FALSE, italic |-> TRUE], [italic |-> FALSE]}

\* operations of the diff between the base and the current table
CurrentDiffs ==
    TextOps \cup {StyleOp(p, n, a) : p \in 0..MaxPos, n \in 1..2, a \in AttrMaps}

\* the client's Change rows turned into diffs
ChangeDiffs ==
    {change_to_diff(Change(InitialVersion, "insert", p, t, PyNone)) :
        p \in 0..MaxPos, t \in OpTexts \cup {NoneText}}
    \cup {change_to_diff(Change(InitialVersion, "delete", p, NoneText, PyNone)) :
            p \in 0..MaxPos}
    \cup {change_to_diff(Change(InitialVersion, "style", p, NoneText, a)) :
            p \in 0..MaxPos, a \in AttrMaps \cup {PyNone}}

RInit ==
    /\ pt = EmptyTable
    /\ ptOp = NoOp
    /\ ptPrev = NoOp
    /\ dState = DIdle
    /\ fm = EmptyFormatting
    /\ StoreIdle

MergeDiffs(current_diff, change_diff) ==
    /\ \E ov \in {changes_overlap(current_diff, change_diff)},
          r \in {merge_diffs(current_diff, change_diff)} :
          last' = [op |-> "merge_diffs", current |-> current_diff,
                   change |-> change_diff,
                   overlap |-> ov.exc = "none" /\ ov.val,
                   ret |-> r.val, exc |-> r.exc]
    /\ UNCHANGED <<ptVars, dState, fm, storeVars, connVars>>

RNext ==
    \E current_diff \in CurrentDiffs, change_diff \in ChangeDiffs :
        MergeDiffs(current_diff, change_diff)

SpecResolve == RInit /\ [][RNext]_vars

----------------------------------------------------------------------------
\* Self-diff runs: create_diff(a, a) for a table a with or without style
\* ranges and line markers

\* the style lists of the self-diff runs: none, one range, or two ranges of
\* one place that carry different attribute keys
StyleLists(table) ==
    {<<>>}
    \cup {<<StyleRange(p[1], p[2], 1, [bold |-> TRUE])>> : p \in AnchorPlaces(table)}
    \cup {<<StyleRange(p[1], p[2], 1, [bold |-> TRUE]),
            StyleRange(p[1], p[2], 1, [italic |-> TRUE])>> : p \in AnchorPlaces(table)}

\* the line lists of the self-diff runs: none or one marker
LineLists(table) ==
    {<<>>}
    \cup {<<LineMarker(p[1], p[2], "paragraph", EmptyDict)>> : p \in AnchorPlaces(table)}

SelfDiffTables ==
    UNION {{[LoadedTable(Fresh(0, n), shape) EXCEPT !.styles = ss, !.lines = ls] :
              ss \in StyleLists(LoadedTable(Fresh(0, n), shape)),
              ls \in LineLists(LoadedTable(Fresh(0, n), shape))} :
           n \in 0..MaxDiffLen, shape \in Shapes \cup {"original"}}

SelfInit ==
    /\ pt \in SelfDiffTables
    /\ ptOp = NoOp
    /\ ptPrev = NoOp
    /\ dState = DIdle
    /\ fm = EmptyFormatting
    /\ StoreIdle

\* create_diff(a, a)
SelfDiff ==
    /\ \E r \in {create_diff(pt, pt)} :
          last' = [op |-> "create_diff", ops |-> r.ops, exc |-> r.exc]
    /\ UNCHANGED <<ptVars, dState, fm, storeVars, connVars>>

SpecSelfDiff == SelfInit /\ [][SelfDiff]_vars

----------------------------------------------------------------------------
\* Style runs: the tables of the anchor runs under insert calls and style
\* operations applied by MergeService._apply_single_operation

\* the style operations of the style runs
StyleOperations(table) ==
    {StyleOp(p, n, a) : p \in 0..Len(get_text(table)), n \in 1..2,
                        a \in {[bold |-> FALSE], [italic |-> TRUE]}}

\* MergeService()._apply_single_operation(piece_table, style_op)
ApplyStyle(operation) ==
    /\ \E r \in {apply_single_operation(pt, operation)} :
          /\ pt' = r.table
          /\ ptOp' = [name |-> "apply_style", position |-> operation.position,
                      text |-> <<>>, length |-> 0, before |-> get_text(pt),
                      exc |-> r.exc]
          /\ last' = [op |-> "apply_style", operation |-> operation,
                      before |-> pt, exc |-> r.exc]
    /\ ptPrev' = ptOp
    /\ UNCHANGED <<dState, fm, doc, versions, changes, connVars>>

SNext ==
    \/ \E position \in 0..Len(get_text(pt)) :
          AInsert(position, Fresh(Len(get_text(pt)), 1))
    \/ \E operation \in StyleOperations(pt) : ApplyStyle(operation)

SpecStyle == AInit /\ [][SNext]_vars

----------------------------------------------------------------------------
\* Overlap runs: the operation a client submits goes through create_change and
\* _change_to_diff, as in handle_operation and apply_change, and the result
\* is tested against an operation of the current diff by _changes_overlap

\* the operations of the client's messages
ClientOperations ==
    TextOps \cup {StyleOp(p, n, [bold |-> TRUE]) : p \in 0..MaxPos, n \in 1..2}

\* the operations of the current diff
ServerOperations ==
    TextOps \cup {StyleOp(p, n, [italic |-> TRUE]) : p \in 0..MaxPos, n \in 1..2}

ChangesOverlap(current_diff, operation) ==
    /\ \E change_diff \in {change_to_diff(create_change(
                               [type |-> "operation", sourceVersion |-> InitialVersion,
                                operation |-> operation]))} :
          \E ov \in {changes_overlap(current_diff, change_diff)},
             vo \in {changes_overlap(change_diff, current_diff)} :
              last' = [op |-> "changes_overlap", current |-> current_diff,
                       operation |-> operation, change |-> change_diff,
                       val |-> ov.val, exc |-> ov.exc,
                       swapped |-> vo.val, swapped_exc |-> vo.exc]
    /\ UNCHANGED <<ptVars, dState, fm, storeVars, connVars>>

ONext ==
    \E current_diff \in ServerOperations, operation \in ClientOperations :
        ChangesOverlap(current_diff, operation)

SpecOverlap == RInit /\ [][ONext]_vars

----------------------------------------------------------------------------
\* Composition runs: _combine_non_overlapping_diffs(a, b) for two text
\* operations that _changes_overlap reports as not overlapping, and the
\* compound applied by _apply_merged_changes' loop to a table holding s

\* the source texts: the first n characters of Chars
ComposeTexts == {Fresh(0, n) : n \in 0..MaxDiffLen}

\* insert and delete operations with a position valid in the text s
ValidOps(s, texts) ==
    {InsertOp(p, t) : p \in 0..Len(s), t \in texts}
    \cup UNION {{DeleteOp(p, n) : n \in 1..Min(2, Len(s) - p)} : p \in 0..Len(s)}

KInit ==
    /\ pt \in {TableOf(s, shape) : s \in ComposeTexts, shape \in Shapes}
    /\ ptOp = NoOp
    /\ ptPrev = NoOp
    /\ dState = DIdle
    /\ fm = EmptyFormatting
    /\ StoreIdle

\* the compound of a and b is built and applied to a copy of the table
Compose(a, b) ==
    /\ \E ov \in {changes_overlap(a, b)} : ov.exc = "none" /\ ~ov.val
    /\ \E c \in {combine_non_overlapping_diffs(a, b)} :
          \E r \in {IF c.exc # "none" THEN [table |-> pt, exc |-> c.exc]
                    ELSE apply_operations(pt, c.val.operations, 1)} :
              last' = [op |-> "combine", s |-> get_text(pt), a |-> a, b |-> b,
                       compound |-> c.val, exc |-> r.exc,
                       text |-> get_text(r.table)]
    /\ UNCHANGED <<ptVars, dState, fm, storeVars, connVars>>

KNext ==
    \E a \in ValidOps(get_text(pt), {<<"x">>, <<"x", "y">>}),
       b \in ValidOps(get_text(pt), {<<"z">>}) : Compose(a, b)

SpecCompose == KInit /\ [][KNext]_vars

----------------------------------------------------------------------------
\* Overlay runs: one FormattingManager, empty at first, under add_style,
\* add_line_marker, add_block and update_positions calls

MaxOffset == 3  \* largest offset a range, marker or block may lie at
MaxRanges == 2  \* entries the three lists of a run may hold together

\* piece indices the entries name
PieceIndices == {0, 1}

\* deltas of update_positions: text put in and text taken out
Deltas == {-2, -1, 1, 2}

StyleRanges ==
    {FormatStyleRange(p, o, n, 0, a) :
        p \in PieceIndices, o \in 0..MaxOffset, n \in 1..2, a \in AttrMaps}

LineMarkers ==
    {FormatLineMarker(p, o, t) :
        p \in PieceIndices, o \in 0..MaxOffset, t \in {"paragraph", "bullet"}}

\* blocks that end behind their start
Blocks ==
    {b \in {BlockDescriptor(p, s, p, e, t) :
                p \in PieceIndices, s \in 0..MaxOffset, e \in 0..MaxOffset,
                t \in {"quote", "code"}} : b.startOffset < b.endOffset}

FInit ==
    /\ pt = EmptyTable
    /\ ptOp = NoOp
    /\ ptPrev = NoOp
    /\ dState = DIdle
    /\ fm = EmptyFormatting
    /\ StoreIdle

\* entries the overlay holds
Entries(self) == Len(self.styles) + Len(self.lines) + Len(self.blocks)

\* every offset of the overlay lies in 0..MaxOffset
OffsetsInRange(self) ==
    /\ \A i \in 1..Len(self.styles) : self.styles[i].offsetInPiece \in 0..MaxOffset
    /\ \A i \in 1..Len(self.lines) : self.lines[i].offsetInPiece \in 0..MaxOffset
    /\ \A i \in 1..Len(self.blocks) :
          /\ self.blocks[i].startOffset \in 0..MaxOffset
          /\ self.blocks[i].endOffset \in 0..MaxOffset

AddStyle(style) ==
    /\ Entries(fm) < MaxRanges
    /\ fm' = add_style(fm, style)
    /\ UNCHANGED <<ptVars, dState, storeVars, connVars, last>>

AddLineMarker(marker) ==
    /\ Entries(fm) < MaxRanges
    /\ fm' = add_line_marker(fm, marker)
    /\ UNCHANGED <<ptVars, dState, storeVars, connVars, last>>

AddBlock(block) ==
    /\ Entries(fm) < MaxRanges
    /\ fm' = add_block(fm, block)
    /\ UNCHANGED <<ptVars, dState, storeVars, connVars, last>>

UpdatePositions(piece_index, offset, delta) ==
    /\ OffsetsInRange(update_positions(fm, piece_index, offset, delta))
    /\ fm' = update_positions(fm, piece_index, offset, delta)
    /\ UNCHANGED <<ptVars, dState, storeVars, connVars, last>>

FNext ==
    \/ \E style \in StyleRanges : AddStyle(style)
    \/ \E marker \in LineMarkers : AddLineMarker(marker)
    \/ \E block \in Blocks : AddBlock(block)
    \/ \E piece_index \in PieceIndices, offset \in 0..MaxOffset, delta \in Deltas :
          UpdatePositions(piece_index, offset, delta)

SpecFormat == FInit /\ [][FNext]_vars

----------------------------------------------------------------------------
\* Wire runs: a table built from empty by insert and delete calls, by
\* apply_diff with style and line operations, and by the merge service's
\* style operation; to_json and from_json are applied to every table reached

\* style and line operations of a diff, one to a list
WireDiffs ==
    {<<StyleOp(p, 1, [bold |-> TRUE])>> : p \in 0..MaxPos}
    \cup {<<[type |-> "line", position |-> p, lineType |-> "paragraph",
             properties |-> EmptyDict]>> : p \in 0..MaxPos}

\* DiffCalculator().apply_diff(piece_table, operations)
WApplyDiff(operations) ==
    /\ Len(pt.styles) + Len(pt.lines) < MaxRanges
    /\ \E r \in {apply_diff(pt, operations)} :
          /\ pt' = r.table
          /\ ptOp' = [name |-> "apply_diff", position |-> operations[1].position,
                      text |-> <<>>, length |-> 0, before |-> get_text(pt),
                      exc |-> r.exc]
    /\ ptPrev' = ptOp
    /\ UNCHANGED <<dState, fm, storeVars, connVars, last>>

\* MergeService()._apply_single_operation(piece_table, style_op)
WApplyStyle(operation) ==
    /\ Len(pt.styles) + Len(pt.lines) < MaxRanges
    /\ \E r \in {apply_single_operation(pt, operation)} :
          /\ pt' = r.table
          /\ ptOp' = [name |-> "apply_style", position |-> operation.position,
                      text |-> <<>>, length |-> 0, before |-> get_text(pt),
                      exc |-> r.exc]
    /\ ptPrev' = ptOp
    /\ UNCHANGED <<dState, fm, storeVars, connVars, last>>

WNext ==
    \/ \E position \in 0..Len(get_text(pt)) :
          PTInsert(position, Fresh(Len(pt.add_buffer), 1))
    \/ \E position \in 0..Len(get_text(pt)), length \in 1..Len(get_text(pt)) :
          PTDelete(position, length)
    \/ \E operations \in WireDiffs : WApplyDiff(operations)
    \/ \E p \in 0..MaxPos : WApplyStyle(StyleOp(p, 1, [bold |-> TRUE]))

SpecWire == PTInit /\ [][WNext]_vars

----------------------------------------------------------------------------
\* Session runs: connections to one created document over the websocket
\* consumer, with the version-control and document-service calls beside them.
\* Each handler runs to its end before the next starts.

Init ==
    /\ pt = EmptyTable
    /\ ptOp = NoOp
    /\ ptPrev = NoOp
    /\ dState = DIdle
    /\ fm = EmptyFormatting
    /\ CreatedDocument
    /\ joined = {}
    /\ outbox = {}
    /\ handlers = NoHandlers
    /\ scopes = NoScopes
    /\ last = [op |-> "none"]

Connect(conn) ==
    /\ conn \notin joined
    /\ \E r \in {connect(conn, doc, joined)} :
          /\ joined' = r.group
          /\ outbox' = r.sent
    /\ last' = [op |-> "connect", conn |-> conn]
    /\ UNCHANGED <<ptVars, dState, fm, storeVars, scopes, handlers>>

Disconnect(conn) ==
    /\ conn \in joined
    /\ \E r \in {disconnect(conn, joined)} :
          /\ joined' = r.group
          /\ outbox' = r.sent
    /\ last' = [op |-> "disconnect", conn |-> conn]
    /\ UNCHANGED <<ptVars, dState, fm, storeVars, scopes, handlers>>

HandleOperation(conn, data) ==
    /\ conn \in joined
    /\ data.sourceVersion = doc.current_version => Len(changes) < MaxChanges
    /\ \E r \in {handle_operation(conn, data, doc, versions, changes, joined)} :
          /\ doc' = r.doc
          /\ versions' = r.log
          /\ changes' = r.changes
          /\ outbox' = r.sent
          /\ last' = [op |-> "operation", conn |-> conn, arg |-> data,
                      ret |-> r.ret, exc |-> r.exc, merged |-> r.merged,
                      before |-> doc]
    /\ UNCHANGED <<ptVars, dState, fm, joined, scopes, handlers>>

Next ==
    \/ \E conn \in Conns : Connect(conn)
    \/ \E conn \in Conns : Disconnect(conn)
    \/ \E conn \in Conns, data \in ClientData : HandleOperation(conn, data)
    \/ \E document \in LoadedDocuments, version_number \in SourceVersions :
          RestoreVersion(document, version_number)
    \/ \E document \in LoadedDocuments, version_number \in SourceVersions :
          VCRestoreVersion(document, version_number)
    \/ \E document \in LoadedDocuments : VCCreateVersion(document)
    \/ \E document \in LoadedDocuments, change_list \in ChangeLists :
          VCRecordChanges(document, change_list)
    \/ \E document \in LoadedDocuments, change_list \in ServiceChangeLists :
          ApplyChanges(document, change_list)

Spec == Init /\ [][Next]_vars

----------------------------------------------------------------------------
\* Interleaved runs: handle_operation taken await by await. Each of
\* get_document, create_change and apply_change runs in a database thread and
\* the handlers of other connections, and other writers of the store, run
\* between them; the handler holds no lock and opens no transaction.

\* the handlers between their get_document and the end of their apply_change
Busy == {c \in Conns : handlers[c].pc # "idle"}

\* document = await self.get_document()
HLoad(conn, data) ==
    /\ conn \in joined
    /\ handlers[conn].pc = "idle"
    /\ Len(changes) + Cardinality(Busy) < MaxRecorded
    /\ handlers' = [handlers EXCEPT ![conn] =
                       [pc |-> "loaded", data |-> data, document |-> doc]]
    /\ outbox' = {}
    /\ last' = [op |-> "load", conn |-> conn, arg |-> data]
    /\ UNCHANGED <<ptVars, dState, fm, storeVars, joined, scopes>>

\* the version check on the loaded object, then sync_required or
\* change = await self.create_change(data)
HCheck(conn) ==
    /\ handlers[conn].pc = "loaded"
    /\ \E h \in {handlers[conn]} :
          IF h.data.sourceVersion # h.document.current_version
          THEN /\ handlers' = [handlers EXCEPT ![conn] = HIdle]
               /\ outbox' = {Sent(conn, [type |-> "sync_required",
                                         currentVersion |-> h.document.current_version])}
               /\ last' = [op |-> "operation", conn |-> conn, arg |-> h.data,
                           ret |-> "sync_required", exc |-> "none",
                           merged |-> FALSE, before |-> doc]
               /\ UNCHANGED changes
          ELSE /\ handlers' = [handlers EXCEPT ![conn] =
                                  [pc |-> "recorded", data |-> h.data,
                                   document |-> h.document,
                                   change |-> create_change(h.data)]]
               /\ changes' = Append(changes, create_change(h.data))
               /\ outbox' = {}
               /\ last' = [op |-> "create_change", conn |-> conn, arg |-> h.data]
    /\ UNCHANGED <<ptVars, dState, fm, doc, versions, joined, scopes>>

\* success = await apply_change(document, change) on the object loaded
\* earlier and the log as it is now, then the broadcast
HApply(conn) ==
    /\ handlers[conn].pc = "recorded"
    /\ \E h \in {handlers[conn]} :
       \E r \in {apply_change(h.document, versions, h.change)} :
          /\ doc' = IF r.doc = h.document THEN doc ELSE r.doc
          /\ versions' = r.log
          /\ outbox' = IF r.ret = "True"
                        THEN broadcast_change(conn, h.data, r.doc.current_version,
                                              joined)
                        ELSE {}
          /\ last' = [op |-> "operation", conn |-> conn, arg |-> h.data,
                      ret |-> r.ret, exc |-> r.exc, merged |-> TRUE,
                      before |-> doc]
    /\ handlers' = [handlers EXCEPT ![conn] = HIdle]
    /\ UNCHANGED <<ptVars, dState, fm, changes, joined, scopes>>

CNext ==
    \/ \E conn \in Conns : Connect(conn)
    \/ \E conn \in Conns, data \in ClientData : HLoad(conn, data)
    \/ \E conn \in Conns : HCheck(conn)
    \/ \E conn \in Conns : HApply(conn)
    \/ \E document \in LoadedDocuments : VCCreateVersion(document)
    \/ \E document \in LoadedDocuments, version_number \in SourceVersions :
          RestoreVersion(document, version_number)

SpecConc == Init /\ [][CNext]_vars

----------------------------------------------------------------------------
\* Group-handler runs: three connections to the created document, and the
\* consumer's group sends entered directly: the branch of handle_operation
\* that follows a successful apply, and handle_cursor_update

\* cursor positions a client reports
CursorPositions == {0, 1, 2}

\* versions the Document object carries when the branch is entered
AppliedVersions == {InitialVersion + 1, InitialVersion + 2}

\* operation messages whose apply is taken to have succeeded
AppliedData ==
    {[type |-> "operation", sourceVersion |-> v - 1, operation |-> op] :
        v \in AppliedVersions,
        op \in {[type |-> "insert", position |-> 0, content |-> <<"a">>],
                [type |-> "delete", position |-> 0, length |-> 1]}}

GInit ==
    /\ pt = EmptyTable
    /\ ptOp = NoOp
    /\ ptPrev = NoOp
    /\ dState = DIdle
    /\ fm = EmptyFormatting
    /\ CreatedDocument
    /\ joined = {}
    /\ outbox = {}
    /\ handlers = NoHandlers
    /\ scopes = NoScopes
    /\ last = [op |-> "none"]

\* handle_operation, lines 88-98, with success true
BroadcastChange(conn, data) ==
    /\ conn \in joined
    /\ outbox' = broadcast_change(conn, data, data.sourceVersion + 1, joined)
    /\ last' = [op |-> "document_change", conn |-> conn, arg |-> data,
                new_version |-> data.sourceVersion + 1]
    /\ UNCHANGED <<ptVars, dState, fm, storeVars, joined, scopes, handlers>>

\* receive of a cursor_update message
CursorUpdate(conn, data) ==
    /\ conn \in joined
    /\ outbox' = handle_cursor_update(conn, data, joined)
    /\ last' = [op |-> "cursor_update", conn |-> conn, arg |-> data]
    /\ UNCHANGED <<ptVars, dState, fm, storeVars, joined, scopes, handlers>>

\* receive of a sync_request message
SyncRequest(conn) ==
    /\ conn \in joined
    /\ outbox' = handle_sync_request(conn, doc)
    /\ last' = [op |-> "sync_request", conn |-> conn]
    /\ UNCHANGED <<ptVars, dState, fm, storeVars, joined, scopes, handlers>>

GNext ==
    \/ \E conn \in GroupConns : Connect(conn)
    \/ \E conn \in GroupConns : Disconnect(conn)
    \/ \E conn \in GroupConns, data \in AppliedData : BroadcastChange(conn, data)
    \/ \E conn \in GroupConns, position \in CursorPositions :
          CursorUpdate(conn, [type |-> "cursor_update", position |-> position])
    \/ \E conn \in GroupConns : SyncRequest(conn)

SpecGroup == GInit /\ [][GNext]_vars

----------------------------------------------------------------------------
\* Runs of DocumentConsumer.receive: joined connections receive text frames,
\* well formed or not.

\* the text is not JSON
NotJson == [valid |-> FALSE]

\* decoded frames that lack a field their handler subscripts
IncompleteData ==
    {[type |-> "operation",
      operation |-> [type |-> "insert", position |-> 0, content |-> <<"a">>]],
     [type |-> "operation", sourceVersion |-> InitialVersion],
     [type |-> "operation", sourceVersion |-> InitialVersion + 1],
     [type |-> "operation", sourceVersion |-> InitialVersion,
      operation |-> [type |-> "insert", content |-> <<"a">>]],
     [type |-> "operation", sourceVersion |-> InitialVersion,
      operation |-> [position |-> 0, content |-> <<"a">>]],
     [type |-> "cursor_update"]}

\* decoded frames with every field of their type, of an unknown type, or
\* without a type
CompleteData ==
    {[type |-> "operation", sourceVersion |-> v,
      operation |-> [type |-> "insert", position |-> 0, content |-> <<"a">>]] :
        v \in {InitialVersion, InitialVersion + 1}}
    \cup {[type |-> "cursor_update", position |-> 0],
          [type |-> "sync_request"], [type |-> "ping"], [position |-> 0]}

InboundFrames ==
    {NotJson} \cup {[valid |-> TRUE, data |-> d] : d \in IncompleteData \cup CompleteData}

\* a joined connection receives a text frame
Receive(conn, frame) ==
    /\ conn \in joined
    /\ Len(changes) < MaxChanges
    /\ \E r \in {receive(conn, frame, doc, versions, changes, joined)} :
          /\ doc' = r.doc
          /\ versions' = r.log
          /\ changes' = r.changes
          /\ outbox' = r.sent
          /\ last' = [op |-> "receive", conn |-> conn, frame |-> frame,
                      ret |-> r.ret, exc |-> r.exc, merged |-> r.merged,
                      before |-> [doc |-> doc, log |-> versions,
                                  changes |-> changes]]
    /\ UNCHANGED <<ptVars, dState, fm, joined, scopes, handlers>>

VNext ==
    \/ \E conn \in GroupConns : Connect(conn)
    \/ \E conn \in GroupConns : Disconnect(conn)
    \/ \E conn \in GroupConns, frame \in InboundFrames : Receive(conn, frame)

SpecRecv == GInit /\ [][VNext]_vars

----------------------------------------------------------------------------
\* Runs of the connection path of asgi.py: WebSocketAuthMiddleware in front
\* of the URLRouter and DocumentConsumer.connect, over a store of two
\* documents.

\* the rows of the Document table: A as created, B after one insert of "a"
StoredDocuments ==
    [A |-> [current_version |-> InitialVersion, content |-> InitialContent],
     B |-> [current_version |-> InitialVersion + 1,
            content |-> to_json(insert(EmptyTable, 0, <<"a">>).table).json]]

\* the document ids a websocket URL of routing.py can carry: the stored ones
\* and one without a row
UrlDocumentIds == DOMAIN StoredDocuments \cup {"X"}

\* the cache entries 'session:<id>' written by create_session_token, with
\* whether their expiry has passed
SessionCache ==
    [sA |-> [document_id |-> "A", expired |-> FALSE],
     sB |-> [document_id |-> "B", expired |-> FALSE],
     sOld |-> [document_id |-> "A", expired |-> TRUE]]

\* the query string carries no session parameter
NoToken == "missing"

\* the session parameters a client may send
SessionTokens == DOMAIN SessionCache \cup {"sForged", NoToken}

\* AuthService.validate_session: the returned pair
validate_session(session_id) ==
    IF session_id \notin DOMAIN SessionCache
    THEN [is_valid |-> FALSE, value |-> "Invalid or expired session"]
    ELSE IF SessionCache[session_id].expired
    THEN [is_valid |-> FALSE, value |-> "Session has expired"]
    ELSE [is_valid |-> TRUE, value |-> SessionCache[session_id].document_id]

\* WebSocketAuthMiddleware.close_connection
close_connection(conn, reason) ==
    Sent(conn, [type |-> "websocket.close", code |-> 4000, reason |-> reason])

\* WebSocketAuthMiddleware.__call__: either the connection is closed, or the
\* wrapped application is called with scope['document_id'] set
auth_middleware_call(conn, session_token, url_document_id) ==
    IF session_token = NoToken
    THEN [passed |-> FALSE, sent |-> {close_connection(conn, "Missing session token")}]
    ELSE IF ~validate_session(session_token).is_valid
    THEN [passed |-> FALSE, sent |-> {close_connection(conn, "Invalid session")}]
    ELSE [passed |-> TRUE, sent |-> {},
          scope |-> [session |-> session_token,
                     document_id |-> validate_session(session_token).value,
                     url_document_id |-> url_document_id]]

\* the members of the group 'document_<document_id>'
room_group(document_id, members, conn_scopes) ==
    {c \in members : conn_scopes[c].url_document_id = document_id}

\* DocumentConsumer.connect over the table: self.document_id is the id of the
\* URL route; without a row for it the socket is closed, and the disconnect
\* that follows takes the consumer out of the group again
connect_scope(conn, scope, members, conn_scopes) ==
    IF scope.url_document_id \in DOMAIN StoredDocuments
    THEN [accepted |-> TRUE, document_id |-> scope.url_document_id,
          members |-> members \cup {conn},
          sent |-> connect(conn, StoredDocuments[scope.url_document_id],
                           room_group(scope.url_document_id, members, conn_scopes)).sent]
    ELSE [accepted |-> FALSE, document_id |-> scope.url_document_id,
          members |-> members,
          sent |-> {Sent(conn, [type |-> "websocket.close"])}]

\* a client opens ws/document/<url_document_id>/?session=<session_token>
JConnect(conn, session_token, url_document_id) ==
    /\ conn \notin joined
    /\ \E m \in {auth_middleware_call(conn, session_token, url_document_id)} :
          IF m.passed
          THEN \E r \in {connect_scope(conn, m.scope, joined, scopes)} :
                  /\ joined' = r.members
                  /\ scopes' = IF r.accepted THEN [scopes EXCEPT ![conn] = m.scope]
                               ELSE scopes
                  /\ outbox' = r.sent
                  /\ last' = [op |-> "connect", conn |-> conn, passed |-> TRUE,
                              accepted |-> r.accepted,
                              validated |-> m.scope.document_id,
                              joined_group |-> r.document_id]
          ELSE /\ outbox' = m.sent
               /\ last' = [op |-> "connect", conn |-> conn, passed |-> FALSE,
                           accepted |-> FALSE]
               /\ UNCHANGED <<joined, scopes>>
    /\ UNCHANGED <<ptVars, dState, fm, storeVars, handlers>>

\* the client of a joined connection goes away
JDisconnect(conn) ==
    /\ conn \in joined
    /\ \E r \in {disconnect(conn, room_group(scopes[conn].url_document_id,
                                             joined, scopes))} :
          outbox' = r.sent
    /\ joined' = joined \ {conn}
    /\ scopes' = [scopes EXCEPT ![conn] = NoScope]
    /\ last' = [op |-> "disconnect", conn |-> conn]
    /\ UNCHANGED <<ptVars, dState, fm, storeVars, handlers>>

JNext ==
    \/ \E conn \in GroupConns, session_token \in SessionTokens,
          url_document_id \in UrlDocumentIds :
          JConnect(conn, session_token, url_document_id)
    \/ \E conn \in GroupConns : JDisconnect(conn)

SpecJoin == GInit /\ [][JNext]_vars

----------------------------------------------------------------------------
\* Claims about the piece table (checked under SpecPT)

\* the call recorded in op is an insert of a non-empty text at a position of the text
ValidInsert(op) ==
    /\ op.name = "insert"
    /\ op.text # <<>>
    /\ 0 <= op.position /\ op.position <= Len(op.before)

\* the call recorded in op is a delete of a non-empty range of the text
ValidDelete(op) ==
    /\ op.name = "delete"
    /\ op.length > 0
    /\ 0 <= op.position /\ op.position + op.length <= Len(op.before)

\* C3: after insert(pos, t) with 0 <= pos <= |T| and t non-empty, get_text()
\* is T[0:pos] + t + T[pos:].
C3_InsertSplicesText ==
    ValidInsert(ptOp) =>
      /\ ptOp.exc = "none"
      /\ get_text(pt) = SubSeq(ptOp.before, 1, ptOp.position) \o ptOp.text
                          \o SubSeq(ptOp.before, ptOp.position + 1, Len(ptOp.before))

\* an insert strictly inside a piece has just split it
C3_Witness ==
    /\ ValidInsert(ptOp)
    /\ Len(pt.pieces) = 3
    /\ ptOp.position = pt.pieces[1].length
    /\ pt.pieces[3].start = pt.pieces[1].start + pt.pieces[1].length
    /\ pt.pieces[2].start = pt.pieces[3].start + pt.pieces[3].length

\* C4: delete(pos, len) with len > 0 and pos + len <= |T| completes and leaves
\* get_text() = T[0:pos] + T[pos+len:].
C4_DeleteRemovesRange ==
    ValidDelete(ptOp) =>
      /\ ptOp.exc = "none"
      /\ get_text(pt) = SubSeq(ptOp.before, 1, ptOp.position)
                          \o SubSeq(ptOp.before, ptOp.position + ptOp.length + 1,
                                    Len(ptOp.before))

\* C5: insert(pos, t) followed by delete(pos, |t|) completes and restores the text.
C5_InsertDeleteRoundTrip ==
    (/\ ValidInsert(ptPrev)
     /\ ptOp.name = "delete"
     /\ ptOp.position = ptPrev.position
     /\ ptOp.length = Len(ptPrev.text)) =>
        /\ ptOp.exc = "none"
        /\ get_text(pt) = ptPrev.before

RECURSIVE sum_lengths(_, _)
sum_lengths(pieces, k) ==
    IF k > Len(pieces) THEN 0 ELSE pieces[k].length + sum_lengths(pieces, k + 1)

\* C6: every stored piece has length >= 1 and lies inside its buffer, and the
\* piece lengths add up to the length of get_text().
C6_PieceStructure ==
    /\ \A k \in 1..Len(pt.pieces) :
          LET piece == pt.pieces[k]
              buffer == IF piece.buffer_type = "original"
                        THEN pt.original_buffer ELSE pt.add_buffer
          IN /\ piece.length >= 1
             /\ piece.start >= 0
             /\ piece.start + piece.length <= Len(buffer)
    /\ sum_lengths(pt.pieces, 1) = Len(get_text(pt))

\* a delete that completed and left at least two pieces, one of them cut by a split
C6_Witness ==
    /\ ptOp.name = "delete" /\ ptOp.exc = "none" /\ ptOp.length > 0
    /\ Len(pt.pieces) >= 2
    /\ \E k \in 1..Len(pt.pieces) : pt.pieces[k].start > 0 /\ pt.pieces[k].length = 1

----------------------------------------------------------------------------
\* Claims about the diff engine (checked under SpecDiff)

\* C1: apply_diff(a, create_diff(a, b)) leaves a with the text of b.
C1_DiffLaw ==
    dState.phase \in {"failed", "applied"} =>
      /\ dState.exc = "none"
      /\ get_text(dState.result) = get_text(dState.target)

----------------------------------------------------------------------------
\* Claims about the merge service (checked under SpecMerge)

\* T with t put in at pos
Splice(T, pos, t) == SubSeq(T, 1, pos) \o t \o SubSeq(T, pos + 1, Len(T))

\* the text of a stored content
TextOf(content) == get_text(from_json(content))

\* C2: when the current text is the base text with a server insert at ps, and
\* a client insert authored at the base names a position pc > ps of the base,
\* apply_change returns True, the current text becomes the text with both
\* inserts, the client's moved right by the server's length, and the version
\* advances by one step.
C2_ConcurrentEditsRebased ==
    (/\ last.op = "apply_change"
     /\ last.arg.operation_type = "insert"
     /\ find_version(versions, last.arg.source_version, 1) # PyNone) =>
        LET B == TextOf(find_version(versions, last.arg.source_version, 1).content)
            cur == TextOf(last.before.content)
            pc == last.arg.position
        IN \A ps \in 0..Len(B), n \in 1..Len(cur) :
              (/\ ps < pc /\ pc <= Len(B)
               /\ Len(cur) = Len(B) + n
               /\ cur = Splice(B, ps, SubSeq(cur, ps + 1, ps + n))) =>
                  /\ last.ret = "True"
                  /\ TextOf(doc.content) = Splice(cur, pc + n, last.arg.content)
                  /\ doc.current_version = last.before.current_version + 1

----------------------------------------------------------------------------
\* Claims about the document store and the session (checked under Spec)

\* the step is a call that applied client operations and reported success
SuccessfulApply ==
    /\ last'.op \in {"operation", "record_changes", "apply_changes"}
    /\ last'.ret = "True"
    /\ last'.op # "operation" => last'.arg # <<>>

\* the text after the inserts of change_list from the k-th on are made in T
RECURSIVE InsertAll(_, _, _)
InsertAll(T, change_list, k) ==
    IF k > Len(change_list) THEN T
    ELSE InsertAll(Splice(T, change_list[k].position, change_list[k].content),
                   change_list, k + 1)

\* every change of the list is an insert of a text at a position of the text
\* it meets
RECURSIVE InsertsInRange(_, _, _)
InsertsInRange(T, change_list, k) ==
    IF k > Len(change_list) THEN TRUE
    ELSE /\ change_list[k].operation_type = "insert"
         /\ change_list[k].content # NoneText
         /\ change_list[k].position <= Len(T)
         /\ InsertsInRange(Splice(T, change_list[k].position, change_list[k].content),
                           change_list, k + 1)

LogIncreasing ==
    \A i \in 1..(Len(versions) - 1) : versions[i].version < versions[i + 1].version

\* C8: the stored current_version never decreases, every change of it is an
\* increase by one step, and the log's versions increase strictly in append
\* order.
C8_VersionMonotonic ==
    /\ [][\/ doc'.current_version = doc.current_version
          \/ doc'.current_version = doc.current_version + 1]_vars
    /\ []LogIncreasing

\* a restore has succeeded after an earlier bump, with a failed operation's
\* Change record in the store
C8_Witness ==
    /\ last.op = "restore_version" /\ last.ret = "True"
    /\ last.arg < last.before.current_version
    /\ Len(versions) = 3
    /\ Len(changes) >= 1

\* C9: an operation whose sourceVersion differs from the current version gets
\* sync_required with the current version written to the sender's socket and
\* to no other, and leaves document, version log and Change records as they
\* were.
C9_StaleOperationRejected ==
    [][(last'.op = "operation" /\ last'.arg.sourceVersion # doc.current_version) =>
          /\ outbox' = {Sent(last'.conn, [type |-> "sync_required",
                                         currentVersion |-> doc.current_version])}
          /\ UNCHANGED <<doc, versions, changes>>]_vars

\* a stale operation was handled while a second subscriber was in the group
C9_Witness ==
    /\ last.op = "operation" /\ last.ret = "sync_required"
    /\ last.arg.sourceVersion # doc.current_version
    /\ joined = Conns
    /\ Len(versions) >= 2

\* the operation handled last names a version older than the current one whose
\* snapshot is in the log
RetainedBase ==
    /\ last.op = "operation"
    /\ last.arg.sourceVersion < last.before.current_version
    /\ find_version(versions, last.arg.sourceVersion, 1) # PyNone

----------------------------------------------------------------------------
\* Claims about the group handlers (checked under SpecGroup)

\* the document_change message of the broadcast recorded in last
ChangeMessage ==
    [type |-> "document_change", change |-> last.arg,
     user_id |-> user_id(last.conn), new_version |-> last.new_version]

\* C11: after a successful apply the document_change message reaches every
\* joined connection other than the sending one, a second connection of the
\* sender's user included, and does not reach the sending connection.
C11_ChangeReachesOtherConnections ==
    last.op = "document_change" =>
        \A c \in joined : (c # last.conn) <=> (Sent(c, ChangeMessage) \in outbox)

\* C14: the connection whose operation was applied is sent a message of its
\* own that carries the new version.
C14_SenderAcknowledged ==
    last.op = "document_change" =>
        \E m \in outbox :
            /\ m.to = last.conn
            /\ \/ "new_version" \in DOMAIN m.msg /\ m.msg.new_version = last.new_version
               \/ "version" \in DOMAIN m.msg /\ m.msg.version = last.new_version
               \/ "currentVersion" \in DOMAIN m.msg
                    /\ m.msg.currentVersion = last.new_version

----------------------------------------------------------------------------
\* Claims about interleaved handlers (checked under SpecConc)

\* the handlers under way whose operation names the version they loaded
InStep ==
    {c \in Busy : handlers[c].data.sourceVersion
                      = handlers[c].document.current_version}

\* C13: the handlers of two operations issued at the same version do not
\* interleave: while one is between its load and the end of its apply, no
\* other handler that loaded the same version is.
C13_HandlersSerialized ==
    \A c \in InStep, d \in InStep :
        c # d => handlers[c].document.current_version
                     # handlers[d].document.current_version

----------------------------------------------------------------------------
\* Claims about restoring and the version log (checked under Spec)

\* the step is a restore that returned True
RestoreSucceeds ==
    /\ last'.op \in {"restore_version", "VersionControl.restore_version"}
    /\ last'.ret = "True"

\* C15: a successful restore to a version of the log advances the current
\* version by one step, makes the content that of the restored snapshot,
\* appends one snapshot of the new version and content, and leaves the
\* snapshots already in the log as they were.
C15_RestoreAppendsSnapshot ==
    [][RestoreSucceeds =>
          /\ get_version(versions, last'.arg) # PyNone
          /\ doc'.current_version = doc.current_version + 1
          /\ doc'.content = get_version(versions, last'.arg).content
          /\ versions' = Append(versions, [version |-> doc'.current_version,
                                           content |-> doc'.content])]_vars

\* a restore to an older version, whose content differs from the content
\* before it, has succeeded
C15_Witness ==
    /\ last.op \in {"restore_version", "VersionControl.restore_version"}
    /\ last.ret = "True"
    /\ last.arg < last.before.current_version
    /\ doc.content # last.before.content
    /\ Len(versions) >= 3

\* no two snapshots of the log carry the same version
LogUnique ==
    \A i \in 1..Len(versions), j \in 1..Len(versions) :
        versions[i].version = versions[j].version => i = j

\* C16: the version log only grows at its end, no step removes or changes a
\* snapshot, and no version number occurs twice in it.
C16_LogAppendOnly ==
    /\ [][/\ Len(versions') >= Len(versions)
          /\ SubSeq(versions', 1, Len(versions)) = versions]_vars
    /\ []LogUnique

\* a snapshot for a version already in the log has been refused, with
\* several snapshots in the log
C16_Witness ==
    /\ last.op \in {"create_version", "restore_version",
                    "VersionControl.restore_version"}
    /\ last.exc = "IntegrityError"
    /\ Len(versions) >= 2

----------------------------------------------------------------------------
\* Claims about positions outside the text (checked under SpecPT)

\* C17: insert of a non-empty text at a position below 0 or above |T| fails
\* with an error and leaves the text as it was.
C17_InsertOutOfRangeFails ==
    (/\ ptOp.name = "insert"
     /\ ptOp.text # <<>>
     /\ (ptOp.position < 0 \/ ptOp.position > Len(ptOp.before))) =>
        /\ ptOp.exc # "none"
        /\ get_text(pt) = ptOp.before

\* C18: delete of a range that starts inside the text and ends beyond it
\* fails with an error and leaves the text as it was.
C18_DeleteBeyondEndFails ==
    (/\ ptOp.name = "delete"
     /\ ptOp.length > 0
     /\ 0 <= ptOp.position /\ ptOp.position <= Len(ptOp.before)
     /\ ptOp.position + ptOp.length > Len(ptOp.before)) =>
        /\ ptOp.exc # "none"
        /\ get_text(pt) = ptOp.before

----------------------------------------------------------------------------
\* Claims about operations the server cannot apply (checked under Spec)

\* the operation handled in this step names a version with no snapshot in the log
MissingBase ==
    /\ last'.op = "operation"
    /\ find_version(versions, last'.arg.sourceVersion, 1) = PyNone

\* C19: an operation whose source version has no snapshot in the log is not
\* applied: document and log stay as they were, the sender is sent
\* sync_required with the current version, and no other message goes out.
C19_MissingBaseRejected ==
    [][MissingBase =>
          /\ outbox' = {Sent(last'.conn, [type |-> "sync_required",
                                         currentVersion |-> doc.current_version])}
          /\ doc' = doc
          /\ versions' = versions]_vars

\* an operation naming a version not yet reached has been handled with a
\* second subscriber in the group and two snapshots in the log
C19_Witness ==
    /\ last.op = "operation"
    /\ find_version(versions, last.arg.sourceVersion, 1) = PyNone
    /\ last.arg.sourceVersion > doc.current_version
    /\ last.conn \in joined /\ joined = Conns
    /\ Len(versions) >= 2

\* the operation handled in this step is an insert at the current version
\* whose position lies beyond the end of the current text
OutOfBounds ==
    /\ last'.op = "operation"
    /\ last'.arg.sourceVersion = doc.current_version
    /\ last'.arg.operation.type = "insert"
    /\ last'.arg.operation.position > Len(TextOf(doc.content))

\* C20: an operation naming a position outside the current text makes
\* apply_change return False, leaves document and log as they were, and has
\* sync_required with the current version sent to the sender.
C20_OutOfBoundsRejected ==
    [][OutOfBounds =>
          /\ last'.ret = "False"
          /\ doc' = doc
          /\ versions' = versions
          /\ outbox' = {Sent(last'.conn, [type |-> "sync_required",
                                         currentVersion |-> doc.current_version])}]_vars

\* C22: an operation that is rejected, or whose apply does not succeed,
\* leaves the Change records of the document as they were.
C22_ChangeRecordedOnlyOnSuccess ==
    [][(last'.op = "operation" /\ last'.ret # "True") => changes' = changes]_vars

----------------------------------------------------------------------------
\* Claims about conflict resolution (checked under SpecResolve)

\* the call recorded in last merged two style operations that carry attribute
\* maps and that _changes_overlap finds overlapping
StyleConflict ==
    /\ last.op = "merge_diffs"
    /\ last.overlap
    /\ last.current.type = "style" /\ last.change.type = "style"
    /\ last.current.attributes # PyNone /\ last.change.attributes # PyNone

TextConflict ==
    /\ last.op = "merge_diffs"
    /\ last.overlap
    /\ ~(last.current.type = "style" /\ last.change.type = "style")

----------------------------------------------------------------------------
\* Claims about the formatting overlay (checked under SpecFormat)

\* C25: no two stored style ranges that overlap carry a common attribute key.
C25_StyleRangesExclusive ==
    \A i \in 1..Len(fm.styles), j \in 1..Len(fm.styles) :
        (i # j /\ overlaps(fm.styles[i], fm.styles[j])) =>
            DOMAIN fm.styles[i].styles \cap DOMAIN fm.styles[j].styles = {}

\* C26: no two stored line markers lie at the same piece index and offset.
C26_LineMarkersDistinct ==
    \A i \in 1..Len(fm.lines), j \in 1..Len(fm.lines) :
        i # j => \/ fm.lines[i].pieceIndex # fm.lines[j].pieceIndex
                 \/ fm.lines[i].offsetInPiece # fm.lines[j].offsetInPiece

\* C27: no two stored blocks of the same type contain a common position.
C27_BlocksDisjoint ==
    \A i \in 1..Len(fm.blocks), j \in 1..Len(fm.blocks) :
        (i # j /\ fm.blocks[i].type = fm.blocks[j].type) =>
            \A p \in PieceIndices, o \in 0..MaxOffset :
                ~(/\ contains_position(fm.blocks[i], p, o)
                  /\ contains_position(fm.blocks[j], p, o))

----------------------------------------------------------------------------
\* Claims about the wire form (checked under SpecWire)

\* C28: to_json of the table succeeds, from_json of the result succeeds, and
\* the table it builds has the text, pieces, styles and lines of the table.
C28_WireRoundTrip ==
    /\ to_json(pt).exc = "none"
    /\ from_json_exc(to_json(pt).json) = "none"
    /\ get_text(from_json(to_json(pt).json)) = get_text(pt)
    /\ from_json(to_json(pt).json).pieces = pt.pieces
    /\ from_json(to_json(pt).json).styles = pt.styles
    /\ from_json(to_json(pt).json).lines = pt.lines

----------------------------------------------------------------------------
\* Claims about cursor updates (checked under SpecGroup)

\* the cursor_position message of the cursor update handled in this step
CursorMessage ==
    [type |-> "cursor_position", user_id |-> user_id(last'.conn),
     position |-> last'.arg.position]

----------------------------------------------------------------------------
\* Claims about joining (checked under SpecJoin)

\* the document_state message of a stored document
DocumentState(conn, document_id) ==
    Sent(conn, [type |-> "document_state",
                content |-> StoredDocuments[document_id].content,
                version |-> StoredDocuments[document_id].current_version,
                active_users |-> <<>>])

\* C30: a connection is in the group of, and is sent the document_state of,
\* only the document its session was validated for
C30_JoinsOnlyValidatedDocument ==
    /\ \A c \in joined : scopes[c].url_document_id = scopes[c].document_id
    /\ \A c \in GroupConns, d \in DOMAIN StoredDocuments :
          (last.op = "connect" /\ last.conn = c /\ last.passed
             /\ DocumentState(c, d) \in outbox) => d = last.validated

----------------------------------------------------------------------------
\* Claims about inbound frames (checked under SpecRecv)

\* the frame is not JSON, or is an operation or cursor_update message without
\* one of its fields
Malformed(frame) == frame = NotJson \/ frame.data \in IncompleteData

\* C31: after a malformed frame the sending connection has been sent an error
\* frame, its handler has not been left by an exception, it is still in the
\* group, and the stored document, version log and changes are as before
C31_MalformedFrameAnswered ==
    (last.op = "receive" /\ Malformed(last.frame)) =>
        /\ \E m \in outbox : m.to = last.conn /\ m.msg.type = "error"
        /\ last.exc = "none"
        /\ last.conn \in joined
        /\ doc = last.before.doc
        /\ versions = last.before.log
        /\ changes = last.before.changes

----------------------------------------------------------------------------
\* Claims about composed operations (checked under SpecCompose)

\* the text T after one insert or delete operation
ApplyText(T, op) ==
    IF op.type = "insert" THEN Splice(T, op.position, op.content)
    ELSE SubSeq(T, 1, op.position) \o SubSeq(T, op.position + op.length + 1, Len(T))

\* b moved across a: by the inserted length to the right, by the deleted
\* length to the left, when a is the earlier of the two
Rebased(b, a) ==
    IF b.position < a.position THEN b
    ELSE IF a.type = "insert"
    THEN [b EXCEPT !.position = @ + Len(a.content)]
    ELSE [b EXCEPT !.position = @ - a.length]

\* C32: applying the compound of two non-overlapping operations a and b to a
\* table holding s gives the text of s after a and then b rebased across a
C32_CompoundEqualsSequence ==
    last.op = "combine" =>
        /\ last.exc = "none"
        /\ last.text = ApplyText(ApplyText(last.s, last.a), Rebased(last.b, last.a))

----------------------------------------------------------------------------
\* Claims about the overlap test (checked under SpecOverlap)

\* the positions [position, position + extent) of an operation
Interval(op) ==
    {k \in 0..(2 * MaxPos + 2) :
        /\ op.position <= k
        /\ k < op.position + (IF op.type = "insert" THEN Len(op.content)
                              ELSE op.length)}

\* C33: the overlap test of a server operation and the operation a client
\* submitted is true exactly when their intervals [position, position+extent)
\* share a position, and gives the same answer with its arguments swapped
C33_OverlapIsIntersection ==
    last.op = "changes_overlap" =>
        /\ last.exc = "none" /\ last.swapped_exc = "none"
        /\ last.val = (Interval(last.current) \cap Interval(last.operation) # {})
        /\ last.swapped = last.val

----------------------------------------------------------------------------
\* Claims about anchors (checked under SpecAnchor)

RECURSIVE PiecesLength(_, _)
\* the length of the first k pieces
PiecesLength(table, k) ==
    IF k = 0 THEN 0 ELSE PiecesLength(table, k - 1) + table.pieces[k].length

\* the position in the logical text an anchor stands at; -1 when it names no
\* place inside a piece
AnchorPosition(table, piece_index, offset) ==
    IF /\ piece_index \in 0..(Len(table.pieces) - 1)
       /\ offset \in 0..(table.pieces[piece_index + 1].length - 1)
    THEN PiecesLength(table, piece_index) + offset
    ELSE -1

\* the characters a style range covers
StyledText(table, style) ==
    IF AnchorPosition(table, style.piece_index, style.start_offset) = -1
    THEN <<"dangling">>
    ELSE PySlice(get_text(table),
                 AnchorPosition(table, style.piece_index, style.start_offset),
                 AnchorPosition(table, style.piece_index, style.start_offset)
                   + style.length)

\* the character a line marker stands in front of
MarkedText(table, marker) ==
    IF AnchorPosition(table, marker.piece_index, marker.offset) = -1
    THEN <<"dangling">>
    ELSE PySlice(get_text(table),
                 AnchorPosition(table, marker.piece_index, marker.offset),
                 AnchorPosition(table, marker.piece_index, marker.offset) + 1)

\* the piece the insert of `last` split, -1 when it split none
SplitPiece ==
    IF find_piece_at_position(last.before, last.position)[2] > 0
    THEN find_piece_at_position(last.before, last.position)[1]
    ELSE -1

\* C34: after an insert every style range and line marker the table held
\* covers the characters it covered before (an anchor at the insertion point
\* staying with the character that followed it), and anchors in pieces the
\* insert did not split keep their offset
C34_AnchorsStable ==
    last.op = "insert" =>
        /\ \A k \in 1..Len(last.before.styles) :
              /\ StyledText(pt, pt.styles[k])
                   = StyledText(last.before, last.before.styles[k])
              /\ last.before.styles[k].piece_index # SplitPiece =>
                    pt.styles[k].start_offset = last.before.styles[k].start_offset
        /\ \A k \in 1..Len(last.before.lines) :
              /\ MarkedText(pt, pt.lines[k])
                   = MarkedText(last.before, last.before.lines[k])
              /\ last.before.lines[k].piece_index # SplitPiece =>
                    pt.lines[k].offset = last.before.lines[k].offset

----------------------------------------------------------------------------
\* Claims about the optimization of diffs (checked under SpecOptimize)

\* C35: apply_diff gives the source table the same text, and ends the same
\* way, with the operation list of the LCS walk and with its optimized form
C35_OptimizationKeepsEffect ==
    last.op = "optimize" => last.merged = last.plain

----------------------------------------------------------------------------
\* Claims about style operations (checked under SpecStyle)

\* the style range a style operation stands for in the table it is applied to
NewStyleRange(table, operation) ==
    StyleRange(find_piece_at_position(table, operation.position)[1],
               find_piece_at_position(table, operation.position)[2],
               operation.length, operation.attributes)

\* s lies in the piece of r, shares an offset with it and carries one of its
\* attribute keys
Replaces(r, s) ==
    /\ s.piece_index = r.piece_index
    /\ s.start_offset < r.start_offset + r.length
    /\ r.start_offset < s.start_offset + s.length
    /\ DOMAIN s.attributes \cap DOMAIN r.attributes # {}

\* the style ranges of `before` that r does not replace, in order
KeptStyles(before, r) ==
    LET RECURSIVE upto(_)
        upto(k) == IF k = 0 THEN <<>>
                   ELSE IF Replaces(r, before.styles[k]) THEN upto(k - 1)
                   ELSE Append(upto(k - 1), before.styles[k])
    IN upto(Len(before.styles))

\* C36: a style operation applied to a table ends without an exception and
\* leaves the table's style ranges except those its range replaces, in place
\* and unchanged, followed by the new range
C36_StyleOperationFrame ==
    last.op = "apply_style" =>
        /\ last.exc = "none"
        /\ pt.styles = Append(KeptStyles(last.before,
                                         NewStyleRange(last.before, last.operation)),
                              NewStyleRange(last.before, last.operation))

----------------------------------------------------------------------------
\* Claims about the diff of a table with itself (checked under SpecSelfDiff)

\* C37: create_diff(a, a) ends without an exception and returns the empty
\* operation list
C37_SelfDiffEmpty ==
    last.op = "create_diff" => (last.exc = "none" /\ last.ops = <<>>)

----------------------------------------------------------------------------
\* Claims about the stored document and its log (checked under Spec)

\* C38: the version log holds a snapshot with the version and the content of
\* the stored document.
C38_LogHoldsCurrent ==
    \E k \in 1..Len(versions) :
        /\ versions[k].version = doc.current_version
        /\ versions[k].content = doc.content

\* an operation failed on a document that restores and recorded changes had
\* moved on from its first version and content
C38_Witness ==
    /\ C38_LogHoldsCurrent
    /\ last.op = "operation" /\ last.merged /\ last.ret # "True"
    /\ doc.current_version > InitialVersion + 1
    /\ doc.content # InitialContent
    /\ Len(versions) >= 3

\* the change does not apply to the stored document
FailsToApply(change) == apply_change(doc, versions, change).ret # "True"

----------------------------------------------------------------------------
\* Claims about the three-way merge (checked under SpecThreeWay)

\* the snapshots the call recorded in last names
MergeBase == get_version(versions, last.base)
MergeV1 == get_version(versions, last.v1)
MergeV2 == get_version(versions, last.v2)

\* C40: merge_versions returns None when one of the three versions is not in
\* the log; with all three present and one side holding the content of the
\* base it returns a table with the text of the other side; it leaves the
\* stored document and the log as they were.
C40_MergeWithUnchangedSide ==
    last.op = "merge_versions" =>
        /\ doc = last.before.doc /\ versions = last.before.log
        /\ (MergeBase = PyNone \/ MergeV1 = PyNone \/ MergeV2 = PyNone)
              => (last.ret = "None" /\ last.exc = "none")
        /\ (MergeBase # PyNone /\ MergeV1 # PyNone /\ MergeV2 # PyNone)
              => /\ MergeV1.content = MergeBase.content
                    => (last.ret = "tuple" /\ last.text = TextOf(MergeV2.content))
                 /\ MergeV2.content = MergeBase.content
                    => (last.ret = "tuple" /\ last.text = TextOf(MergeV1.content))

====
